---- MODULE Spec2Model ----
(***************************************************************************)
(* letsyolo: persistent "yolo" configuration of agent CLIs.                *)
(*                                                                         *)
(* The state is the set of config files on disk, the set of agent          *)
(* binaries that can currently be executed, and the value returned by the  *)
(* most recent call of enableYolo / disableYolo / checkYoloStatus.         *)
(***************************************************************************)
EXTENDS Integers, Sequences, FiniteSets, TLC

VARIABLES
    files,      \* config path -> content of the file at that path
    installed,  \* binary names whose execution with the version flag succeeds
    last,       \* the call made by the last step and the results it returned
    tmpFiles,   \* config path -> content of the temporary sibling file of that path
    writer,     \* the call of writeFileAtomic in progress, step by step
    platform,   \* process.platform
    nvmDir,     \* what readdir gives for ~/.nvm/versions/node
    probe,      \* the call of detectBinary in progress, step by step
    env,        \* process.env: variable name -> value ("" when unset)
    dotfiles,   \* search path -> the secrets file or dotfile at that path
    secretsData,\* the secrets file as text: whether it exists and its characters
    modes,      \* the modes of ~/.letsyolo and of ~/.letsyolo/secrets.env
    profiles,   \* shell profile path -> the profile as text
    held,       \* the map of secrets the caller of writeSecrets holds in memory
    race        \* an enableYolo and a disableYolo in progress on one config file

vars == <<files, installed, last, tmpFiles, writer, platform, nvmDir, probe, env, dotfiles,
          secretsData, modes, profiles, held, race>>
secretVars == <<env, dotfiles>>
shellVars == <<secretsData, modes, profiles, held>>
writeVars == <<tmpFiles, writer>>
detectVars == <<platform, nvmDir, probe>>

-----------------------------------------------------------------------------
(* Bounds of the model *)

\* number of unrelated keys a config holds beside the keys the tool touches
MaxExtraKeys == 1

\* number of chunks fs.writeFile needs for the content of a file
MaxChunks == 2

\* number of entries of the directory ~/.nvm/versions/node
MaxNvmEntries == 2

\* number of lines the secrets file and the dotfiles hold together at the start
MaxLines == 2

\* number of characters of a secret value
MaxValueLen == 2

\* number of characters of a key that is displayed
MaxKeyLen == 13

\* number of hook blocks in a shell profile after which no call is made on it
MaxHooks == 2

-----------------------------------------------------------------------------
(* JSON / TOML values.  Every value is a record [t, s, o]: its type tag,   *)
(* its scalar text, and (objects, tables, arrays) its entries in insertion *)
(* order, each entry a record [k, v].                                      *)

Undefined == [t |-> "undefined", s |-> "", o |-> <<>>]
Null == [t |-> "null", s |-> "", o |-> <<>>]
Str(x) == [t |-> "str", s |-> x, o |-> <<>>]
Bool(x) == [t |-> "bool", s |-> x, o |-> <<>>]
Arr(es) == [t |-> "arr", s |-> "", o |-> es]
Obj(es) == [t |-> "obj", s |-> "", o |-> es]
Entry(key, v) == [k |-> key, v |-> v]

\* 'key in obj'
HasKey(es, key) == \E i \in 1..Len(es) : es[i].k = key

\* obj[key]  (undefined when absent)
Get(es, key) ==
    IF HasKey(es, key)
    THEN es[CHOOSE i \in 1..Len(es) : es[i].k = key].v
    ELSE Undefined

\* obj[key] = v : an existing property keeps its position, a new one is last
Put(es, key, v) ==
    IF HasKey(es, key)
    THEN [i \in 1..Len(es) |-> IF es[i].k = key THEN Entry(key, v) ELSE es[i]]
    ELSE Append(es, Entry(key, v))

\* delete obj[key]
Del(es, key) ==
    LET keep(e) == e.k # key IN SelectSeq(es, keep)

\* Object.keys(obj)
Keys(es) == {es[i].k : i \in 1..Len(es)}

-----------------------------------------------------------------------------
(* The static agent table *)

AgentTypes == <<"claude-code", "codex", "copilot", "amplifier">>
Agents == {AgentTypes[i] : i \in 1..Len(AgentTypes)}

DisplayName(a) ==
    CASE a = "claude-code" -> "Claude Code"
      [] a = "codex" -> "Codex"
      [] a = "copilot" -> "GitHub Copilot"
      [] a = "amplifier" -> "Amplifier"

Binaries(a) ==
    CASE a = "claude-code" -> <<"claude">>
      [] a = "codex" -> <<"codex">>
      [] a = "copilot" -> <<"copilot">>
      [] a = "amplifier" -> <<"amplifier", "amp">>

InstallCommand(a) ==
    CASE a = "claude-code" -> "npm install -g @anthropic-ai/claude-code"
      [] a = "codex" -> "npm install -g @openai/codex"
      [] a = "copilot" -> "Install GitHub Copilot CLI (https://docs.github.com/en/copilot)"
      [] a = "amplifier" -> "uv tool install git+https://github.com/microsoft/amplifier"

YoloFlag(a) ==
    CASE a = "claude-code" -> "--dangerously-skip-permissions"
      [] a = "codex" -> "--yolo"
      [] a = "copilot" -> "--yolo"
      [] a = "amplifier" -> "--dangerously-allow-all"

ConfigPath(a) ==
    CASE a = "claude-code" -> "~/.claude/settings.json"
      [] a = "codex" -> "~/.codex/config.toml"
      [] a = "copilot" -> "~/.copilot/config.json"
      [] a = "amplifier" -> "~/.amplifier/settings.yaml"

\* 'configPath' is set in the table entry (every entry sets it)
HasConfigPath(a) == ConfigPath(a) # ""

\* the persistentToggle field of the table
PersistentToggle(a) == a \in {"claude-code", "codex"}

Paths == {ConfigPath(a) : a \in Agents}
AllBinaries == UNION {{Binaries(a)[i] : i \in 1..Len(Binaries(a))} : a \in Agents}

-----------------------------------------------------------------------------
(* Files.  A file is missing, or holds text; text is modelled by what the  *)
(* parsers make of it: a JSON document, a TOML document, or text neither   *)
(* parser accepts.                                                         *)

Missing == [kind |-> "missing", doc |-> Undefined]
Garbage == [kind |-> "garbage", doc |-> Undefined]
JsonText(v) == [kind |-> "json", doc |-> v]
TomlText(es) == [kind |-> "toml", doc |-> Obj(es)]

Returned(v) == [ok |-> TRUE, config |-> v, error |-> <<>>]
ReadThrew(msg) == [ok |-> FALSE, config |-> <<>>, error |-> msg]

\* JSON.stringify(config, null, 2) + '\n'
JsonStringify(config) == JsonText(Obj(config))

\* stringifyToml(obj).trimEnd() : plain keys first, then the tables
ToToml(config) ==
    LET plain(e) == e.v.t # "obj"
        table(e) == e.v.t = "obj"
    IN  SelectSeq(config, plain) \o SelectSeq(config, table)

\* faulty variant of ReadJsonConfig: text that does not parse is read as {}
ReadJsonConfigSwallows(fs, filePath) ==
    LET c == fs[filePath] IN
    IF c.kind = "missing" \/ c.kind # "json" THEN Returned(<<>>)
    ELSE IF c.doc.t # "obj"
         THEN ReadThrew(<<"Expected a JSON object in ", filePath>>)
    ELSE Returned(c.doc.o)

ReadJsonConfig(fs, filePath) ==
    LET c == fs[filePath] IN
    IF c.kind = "missing" THEN Returned(<<>>)
    ELSE IF c.kind # "json"
         THEN ReadThrew(<<"Invalid JSON in ", filePath, ": ", "Unexpected token">>)
    ELSE IF c.doc.t # "obj"
         THEN ReadThrew(<<"Expected a JSON object in ", filePath>>)
    ELSE Returned(c.doc.o)

\* faulty variant of ReadTomlConfig: text that does not parse is read as empty
ReadTomlConfigSwallows(fs, filePath) ==
    LET c == fs[filePath] IN
    IF c.kind = "toml" THEN Returned(c.doc.o) ELSE Returned(<<>>)

ReadTomlConfig(fs, filePath) ==
    LET c == fs[filePath] IN
    IF c.kind = "missing" THEN Returned(<<>>)
    ELSE IF c.kind # "toml"
         THEN ReadThrew(<<"Invalid TOML in ", filePath, ": ", "Unexpected character">>)
    ELSE Returned(c.doc.o)

\* io is what the disk does during this call: "ok", or "writeFail" when the
\* temporary file cannot be written or renamed (the error is rethrown)
IoModes == {"ok", "writeFail"}

WriteFileAtomic(fs, filePath, content, io) ==
    IF io = "writeFail"
    THEN [ok |-> FALSE, fs |-> fs, error |-> <<"EACCES: permission denied">>]
    ELSE [ok |-> TRUE, fs |-> [fs EXCEPT ![filePath] = content], error |-> <<>>]

WriteJsonConfig(fs, filePath, config, io) ==
    WriteFileAtomic(fs, filePath, JsonStringify(config), io)

WriteTomlConfig(fs, filePath, config, io) ==
    WriteFileAtomic(fs, filePath, TomlText(ToToml(config)), io)

-----------------------------------------------------------------------------
(* Files as text.  A text is a sequence of characters; a word whose letters *)
(* no function of the tool looks at (a key name, "export", a sentence of a  *)
(* comment) stands as one element.                                          *)

\* a file that does not exist, and a file with the given text
NoData == [exists |-> FALSE, data |-> <<>>]
Data(text) == [exists |-> TRUE, data |-> text]

\* neither ~/.letsyolo nor the secrets file exists
NoPerms == [dir |-> "absent", file |-> "absent"]

\* getShellProfiles(): the profiles of the model, the first of darwin / linux and
\* the first of win32
ProfilePaths == {"~/.zshrc", "~/Documents/PowerShell/Microsoft.PowerShell_profile.ps1"}

\* no enableYolo / disableYolo pair is running
NoRace == [active |-> FALSE]

-----------------------------------------------------------------------------
(* Secrets.  A file of environment assignments is a sequence of lines; a    *)
(* line is the record [k, v] parseEnvLine makes of an assignment (the key   *)
(* and the unquoted value), or a line it makes nothing of (k = "").  Values *)
(* are free of the characters the quoting escapes.  A map from variable     *)
(* names to values is the sequence of its entries [k, v] in insertion order.*)

SECRETS_FILE == "~/.letsyolo/secrets.env"
AmplifierKeysFile == "~/.amplifier/keys.env"

\* API_KEYS: the envVar of each entry, in table order
API_KEYS == <<"ANTHROPIC_API_KEY", "OPENAI_API_KEY", "GITHUB_TOKEN", "AMPLIFIER_CONFIGURED">>
TargetVars == {API_KEYS[i] : i \in 1..Len(API_KEYS)}

\* getSearchPaths()
SearchPaths ==
    <<SECRETS_FILE, "~/.env", "~/.secrets", "~/.secrets.env", "~/.zshrc", "~/.bashrc",
      "~/.bash_profile", "~/.profile", "~/.zshenv", "~/.config/.env", "~/.config/env",
      "~/.config/secrets", AmplifierKeysFile>>
SearchPathSet == {SearchPaths[i] : i \in 1..Len(SearchPaths)}

\* names of process.env: the table variables and one other
EnvNames == TargetVars \cup {"EDITOR"}

NoFile == [exists |-> FALSE, lines |-> <<>>]
EnvFile(lines) == [exists |-> TRUE, lines |-> lines]

Assign(key, value) == [k |-> key, v |-> value]
Comment == [k |-> "", v |-> "# DO NOT commit this file to version control"]
Blank == [k |-> "", v |-> ""]

\* parseEnvLine gives a key and a value for the line
Parsed(line) == line.k # ""

\* map.get(key), "" for undefined
MapGet(m, key) == IF HasKey(m, key) THEN m[CHOOSE i \in 1..Len(m) : m[i].k = key].v ELSE ""

RECURSIVE ReadLines(_, _, _)
\* the loop of readSecrets over the lines from the i-th on: secrets.set(key, value)
ReadLines(secrets, lines, i) ==
    IF i > Len(lines) THEN secrets
    ELSE IF Parsed(lines[i])
         THEN ReadLines(Put(secrets, lines[i].k, lines[i].v), lines, i + 1)
    ELSE ReadLines(secrets, lines, i + 1)

\* readSecrets(): the empty map for a missing file
ReadSecrets(fs) ==
    IF fs[SECRETS_FILE].exists THEN ReadLines(<<>>, fs[SECRETS_FILE].lines, 1) ELSE <<>>

\* the lines writeSecrets builds: the header, the known keys with a value in table
\* order (AMPLIFIER_CONFIGURED is never written), then the keys outside the table
SecretsLines(secrets) ==
    LET known(i) == IF API_KEYS[i] # "AMPLIFIER_CONFIGURED" /\ MapGet(secrets, API_KEYS[i]) # ""
                    THEN <<Assign(API_KEYS[i], MapGet(secrets, API_KEYS[i]))>>
                    ELSE <<>>
        extra(e) == e.k \notin TargetVars
    IN  <<Comment, Comment, Blank>> \o known(1) \o known(2) \o known(3) \o known(4)
        \o SelectSeq(secrets, extra)

\* writeSecrets(secrets); io = "writeFail" when writeFileAtomic throws
WriteSecrets(fs, secrets, io) ==
    IF io = "writeFail"
    THEN [ok |-> FALSE, fs |-> fs]
    ELSE [ok |-> TRUE, fs |-> [fs EXCEPT ![SECRETS_FILE] = EnvFile(SecretsLines(secrets))]]

\* checkAmplifierKeys(): the keys file holds an assignment with a value
CheckAmplifierKeys(fs) ==
    LET f == fs[AmplifierKeysFile]
        configured == f.exists /\ \E i \in 1..Len(f.lines) : Parsed(f.lines[i]) /\ f.lines[i].v # ""
    IN  [configured |-> configured, source |-> IF f.exists THEN AmplifierKeysFile ELSE ""]

RECURSIVE ScanEnv(_, _, _)
\* the loop over targetVars: process.env first
ScanEnv(found, environment, i) ==
    IF i > Len(API_KEYS) THEN found
    ELSE IF API_KEYS[i] # "AMPLIFIER_CONFIGURED" /\ environment[API_KEYS[i]] # ""
         THEN ScanEnv(Put(found, API_KEYS[i],
                          [value |-> environment[API_KEYS[i]], source |-> "environment"]),
                      environment, i + 1)
    ELSE ScanEnv(found, environment, i + 1)

RECURSIVE ScanLinesOverwrites(_, _, _, _)
\* faulty variant of ScanLines: a later find replaces an earlier one
ScanLinesOverwrites(found, lines, i, source) ==
    IF i > Len(lines) THEN found
    ELSE IF Parsed(lines[i]) /\ lines[i].k \in TargetVars
         THEN ScanLinesOverwrites(Put(found, lines[i].k, [value |-> lines[i].v, source |-> source]),
                                  lines, i + 1, source)
    ELSE ScanLinesOverwrites(found, lines, i + 1, source)

RECURSIVE ScanLines(_, _, _, _)
\* the loop over the lines of one file: a target variable not found yet is set
ScanLines(found, lines, i, source) ==
    IF i > Len(lines) THEN found
    ELSE IF Parsed(lines[i]) /\ lines[i].k \in TargetVars /\ ~HasKey(found, lines[i].k)
         THEN ScanLines(Put(found, lines[i].k, [value |-> lines[i].v, source |-> source]),
                        lines, i + 1, source)
    ELSE ScanLines(found, lines, i + 1, source)

RECURSIVE ScanFiles(_, _, _)
\* the loop over searchPaths from the j-th on: a file that cannot be read is skipped
ScanFiles(found, fs, j) ==
    IF j > Len(SearchPaths) THEN found
    ELSE IF fs[SearchPaths[j]].exists
         THEN ScanFiles(ScanLines(found, fs[SearchPaths[j]].lines, 1, SearchPaths[j]), fs, j + 1)
    ELSE ScanFiles(found, fs, j + 1)

\* scanForExistingKeys()
ScanForExistingKeys(environment, fs) ==
    LET found == ScanFiles(ScanEnv(<<>>, environment, 1), fs, 1)
        amp == CheckAmplifierKeys(fs)
    IN  IF ~HasKey(found, "AMPLIFIER_CONFIGURED") /\ amp.configured
        THEN Put(found, "AMPLIFIER_CONFIGURED", [value |-> "configured", source |-> amp.source])
        ELSE found

\* checkApiKeyStatus(): one entry per API_KEYS entry
CheckApiKeyStatusOutcome(environment, fs) ==
    LET scanned == ScanForExistingKeys(environment, fs)
        fileSecrets == ReadSecrets(fs)
    IN  [i \in 1..Len(API_KEYS) |->
            LET inEnv == environment[API_KEYS[i]] # ""
                inFile == HasKey(fileSecrets, API_KEYS[i])
                scanResult == HasKey(scanned, API_KEYS[i])
            IN  [envVar |-> API_KEYS[i],
                 set |-> inEnv \/ inFile \/ scanResult,
                 source |-> IF inEnv THEN "environment"
                            ELSE IF inFile THEN "secrets file"
                            ELSE IF scanResult
                                 THEN scanned[CHOOSE j \in 1..Len(scanned) :
                                                  scanned[j].k = API_KEYS[i]].v.source
                            ELSE "not set"]]

RECURSIVE AskKeepsCurrent(_, _, _, _)
\* faulty variant of Ask: an empty answer saves the value shown as current
AskKeepsCurrent(existing, environment, answers, i) ==
    IF i > Len(API_KEYS) THEN existing
    ELSE IF API_KEYS[i] = "AMPLIFIER_CONFIGURED"
         THEN AskKeepsCurrent(existing, environment, answers, i + 1)
    ELSE LET current == IF MapGet(existing, API_KEYS[i]) # ""
                        THEN MapGet(existing, API_KEYS[i])
                        ELSE environment[API_KEYS[i]]
             value == IF answers[i] # "" THEN answers[i] ELSE current
         IN  AskKeepsCurrent(IF value # "" THEN Put(existing, API_KEYS[i], value) ELSE existing,
                             environment, answers, i + 1)

RECURSIVE Ask(_, _, _, _)
\* the loop of interactiveSetup over API_KEYS from the i-th on: answers[i] is the
\* trimmed answer to the prompt of the i-th key; a non-empty answer is set
Ask(existing, environment, answers, i) ==
    IF i > Len(API_KEYS) THEN existing
    ELSE IF API_KEYS[i] = "AMPLIFIER_CONFIGURED"
         THEN Ask(existing, environment, answers, i + 1)
    ELSE Ask(IF answers[i] # "" THEN Put(existing, API_KEYS[i], answers[i]) ELSE existing,
             environment, answers, i + 1)

\* interactiveSetup(): saved and skipped, and the files it leaves
InteractiveSetupOutcome(environment, fs, answers, io) ==
    LET existing == Ask(ReadSecrets(fs), environment, answers, 1)
        real(i) == API_KEYS[i] # "AMPLIFIER_CONFIGURED"
        w == WriteSecrets(fs, existing, io)
    IN  [ok |-> w.ok, fs |-> w.fs,
         saved |-> {API_KEYS[i] : i \in {j \in 1..Len(API_KEYS) : real(j) /\ answers[j] # ""}},
         skipped |-> {API_KEYS[i] : i \in {j \in 1..Len(API_KEYS) :
                        \/ real(j) /\ answers[j] = ""
                        \/ ~real(j) /\ ~CheckAmplifierKeys(fs).configured}}]

-----------------------------------------------------------------------------
(* The secrets file as text: quoting, parsing, writeSecrets and readSecrets *)
(* character by character.                                                  *)

DQ == "\""
SQ == "'"
BS == "\\"
LF == "\n"
CR == "\r"
TAB == "\t"
SP == " "
Hash == "#"
Eq == "="
Dollar == "$"
\* the grave accent, U+0060
Backtick == "U+0060"
\* the line separator, U+2028
LS == "U+2028"

\* what String.prototype.trim strips and \s matches
WhiteSpace == {SP, TAB, LF, CR, LS}

\* what the . of a regular expression without the s flag does not match
LineTerminators == {LF, CR, LS}

\* words that match [A-Z_][A-Z0-9_]*
EnvVarWords == TargetVars \cup {"EDITOR", "FOO"}

RECURSIVE ReplaceAll(_, _, _)
\* value.replace(/ch/g, rep)
ReplaceAll(value, ch, rep) ==
    IF value = <<>> THEN <<>>
    ELSE (IF Head(value) = ch THEN rep ELSE <<Head(value)>>) \o ReplaceAll(Tail(value), ch, rep)

\* escapeForDoubleQuotes(value): the seven replacements in their order
EscapeForDoubleQuotes(value) ==
    LET r1 == ReplaceAll(value, BS, <<BS, BS>>)
        r2 == ReplaceAll(r1, LF, <<BS, "n">>)
        r3 == ReplaceAll(r2, CR, <<BS, "r">>)
        r4 == ReplaceAll(r3, TAB, <<BS, "t">>)
        r5 == ReplaceAll(r4, DQ, <<BS, DQ>>)
        r6 == ReplaceAll(r5, Dollar, <<BS, Dollar>>)
    IN  ReplaceAll(r6, Backtick, <<BS, Backtick>>)

RECURSIVE UnescapeFrom(_, _, _)
\* the loop of unescapeDoubleQuotedValue from index i on
UnescapeFrom(value, i, result) ==
    IF i > Len(value) THEN result
    ELSE IF value[i] # BS THEN UnescapeFrom(value, i + 1, Append(result, value[i]))
    ELSE IF i + 1 > Len(value) THEN UnescapeFrom(value, i + 1, Append(result, BS))
    ELSE LET next == value[i + 1]
             ch == IF next = "n" THEN LF
                   ELSE IF next = "r" THEN CR
                   ELSE IF next = "t" THEN TAB
                   ELSE next
         IN  UnescapeFrom(value, i + 2, Append(result, ch))

\* unescapeDoubleQuotedValue(value)
UnescapeDoubleQuotedValue(value) == UnescapeFrom(value, 1, <<>>)

\* quoteEnvValue(value)
QuoteEnvValue(value) == <<DQ>> \o EscapeForDoubleQuotes(value) \o <<DQ>>

RECURSIVE TrimStart(_)
TrimStart(text) ==
    IF text # <<>> /\ Head(text) \in WhiteSpace THEN TrimStart(Tail(text)) ELSE text

RECURSIVE TrimEnd(_)
TrimEnd(text) ==
    IF text # <<>> /\ text[Len(text)] \in WhiteSpace
    THEN TrimEnd(SubSeq(text, 1, Len(text) - 1))
    ELSE text

\* text.trim()
Trim(text) == TrimStart(TrimEnd(text))

RECURSIVE SplitLines(_, _)
\* text.split('\n'), cur being the line begun
SplitLines(text, cur) ==
    IF text = <<>> THEN <<cur>>
    ELSE IF Head(text) = LF THEN <<cur>> \o SplitLines(Tail(text), <<>>)
    ELSE SplitLines(Tail(text), Append(cur, Head(text)))

RECURSIVE JoinLines(_)
\* lines.join('\n')
JoinLines(lines) ==
    IF lines = <<>> THEN <<>>
    ELSE IF Len(lines) = 1 THEN lines[1]
    ELSE lines[1] \o <<LF>> \o JoinLines(Tail(lines))

\* rawValue.split(/\s+#/, 1)[0]: the text before the first white space followed,
\* after more white space or none, by #
BeforeComment(raw) ==
    LET cuts == {i \in 1..Len(raw) :
                    /\ raw[i] \in WhiteSpace
                    /\ \E j \in (i + 1)..Len(raw) :
                          /\ raw[j] = Hash
                          /\ \A m \in i..(j - 1) : raw[m] \in WhiteSpace}
    IN  IF cuts = {} THEN raw
        ELSE SubSeq(raw, 1, (CHOOSE i \in cuts : \A o \in cuts : i <= o) - 1)

NoMatch == [ok |-> FALSE, key |-> "", value |-> <<>>]

\* parseEnvLine(line): the match of /^(?:export\s+)?([A-Z_][A-Z0-9_]*)\s*=\s*(.*)$/
\* and the unquoting of its second group
ParseEnvLine(line) ==
    LET exported == Len(line) >= 2 /\ line[1] = "export" /\ line[2] \in WhiteSpace
        rest1 == IF exported THEN TrimStart(Tail(line)) ELSE line
        keyed == rest1 # <<>> /\ Head(rest1) \in EnvVarWords
        rest2 == IF keyed THEN TrimStart(Tail(rest1)) ELSE <<>>
        assigned == rest2 # <<>> /\ Head(rest2) = Eq
        \* \s* after the = takes all the white space there is
        group2 == IF assigned THEN TrimStart(Tail(rest2)) ELSE <<>>
        matches == assigned /\ \A i \in 1..Len(group2) : group2[i] \notin LineTerminators
        raw == Trim(group2)
        \* startsWith and endsWith of the same character: true of that character alone
        quotedBy(q) == raw # <<>> /\ Head(raw) = q /\ raw[Len(raw)] = q
        \* slice(1, -1)
        inner == SubSeq(raw, 2, Len(raw) - 1)
    IN  IF ~matches THEN NoMatch
        ELSE [ok |-> TRUE, key |-> Head(rest1),
              value |-> IF quotedBy(DQ) THEN UnescapeDoubleQuotedValue(inner)
                        ELSE IF quotedBy(SQ) THEN inner
                        ELSE Trim(BeforeComment(raw))]

RECURSIVE ParseSecretsFrom(_, _, _)
\* the loop of readSecrets over the lines from the i-th on
ParseSecretsFrom(secrets, lines, i) ==
    IF i > Len(lines) THEN secrets
    ELSE LET trimmed == Trim(lines[i])
             parsed == ParseEnvLine(trimmed)
         IN  IF trimmed = <<>> \/ Head(trimmed) = Hash \/ ~parsed.ok
             THEN ParseSecretsFrom(secrets, lines, i + 1)
             ELSE ParseSecretsFrom(Put(secrets, parsed.key, parsed.value), lines, i + 1)

\* readSecrets() on the file f: the empty map for a missing file
ReadSecretsData(f) ==
    IF f.exists THEN ParseSecretsFrom(<<>>, SplitLines(f.data, <<>>), 1) ELSE <<>>

\* secrets.get(key), the empty text for undefined
GetText(secrets, key) ==
    IF HasKey(secrets, key) THEN secrets[CHOOSE i \in 1..Len(secrets) : secrets[i].k = key].v
    ELSE <<>>

\* export KEY="value"
ExportLine(key, value) == <<"export", SP, key, Eq>> \o QuoteEnvValue(value)

RECURSIVE KnownLines(_, _)
\* the loop of writeSecrets over API_KEYS from the i-th on
KnownLines(secrets, i) ==
    IF i > Len(API_KEYS) THEN <<>>
    ELSE (IF API_KEYS[i] # "AMPLIFIER_CONFIGURED" /\ GetText(secrets, API_KEYS[i]) # <<>>
          THEN <<ExportLine(API_KEYS[i], GetText(secrets, API_KEYS[i]))>>
          ELSE <<>>) \o KnownLines(secrets, i + 1)

\* faulty variant of ExtraLines: only the known keys are written
ExtraLinesDropped(secrets, i) == <<>>

RECURSIVE ExtraLines(_, _)
\* the loop of writeSecrets over the entries of the map from the i-th on
ExtraLines(secrets, i) ==
    IF i > Len(secrets) THEN <<>>
    ELSE (IF secrets[i].k \notin TargetVars
          THEN <<ExportLine(secrets[i].k, secrets[i].v)>>
          ELSE <<>>) \o ExtraLines(secrets, i + 1)

\* the content writeSecrets(secrets) passes to writeFileAtomic
SerializeSecrets(secrets) ==
    JoinLines(<<<<Hash, SP, "letsyolo API keys - sourced by your shell profile">>,
                <<Hash, SP, "DO NOT commit this file to version control">>,
                <<>>>>
              \o KnownLines(secrets, 1) \o ExtraLines(secrets, 1) \o <<<<>>>>)

\* the modes writeSecrets leaves, by the call that fails: mkdir with recursive
\* creates a missing directory with mode 0700 and leaves an existing one as it
\* is; the temporary file is created with mode 0600 and renamed over the target
ModesAfter(m, io) ==
    LET made == [m EXCEPT !.dir = IF m.dir = "absent" THEN "0700" ELSE m.dir] IN
    IF io = "mkdirFail" THEN m
    ELSE IF io = "writeFail" THEN made
    ELSE [made EXCEPT !.file = "0600"]

\* writeSecrets(secrets) on the file f with modes m: the file, the modes and
\* whether the call returns
WriteSecretsData(f, m, secrets, io) ==
    [ok |-> io = "ok",
     file |-> IF io \in {"mkdirFail", "writeFail"} THEN f ELSE Data(SerializeSecrets(secrets)),
     modes |-> ModesAfter(m, io)]

RECURSIVE SetAnswers(_, _, _)
\* the loop of interactiveSetup over API_KEYS from the i-th on, on texts:
\* a non-empty answer is set
SetAnswers(existing, answers, i) ==
    IF i > Len(API_KEYS) THEN existing
    ELSE IF API_KEYS[i] # "AMPLIFIER_CONFIGURED" /\ answers[i] # <<>>
         THEN SetAnswers(Put(existing, API_KEYS[i], answers[i]), answers, i + 1)
    ELSE SetAnswers(existing, answers, i + 1)

-----------------------------------------------------------------------------
(* writeFileAtomic step by step.  A call is the record w: its position pc,  *)
(* its arguments, the content the target held when the call began (old),    *)
(* the step the disk makes fail (fault), whether the cleanup unlink fails   *)
(* too, the chunks of the temporary file written so far, and the error it   *)
(* throws.  Each step maps the target files fs, the temporary files tmps    *)
(* and w to their next values.                                              *)

\* a file that holds only the first chunks of a content
Partial == [kind |-> "partial", doc |-> Undefined]

\* the step of the call the disk makes fail: "open" is writeFile failing before the
\* temporary file exists, "writeFile" is writeFile failing before its last chunk
Faults == {"none", "mkdir", "open", "writeFile", "rename"}

Idle ==
    [pc |-> "idle", filePath |-> "", content |-> Missing, old |-> Missing,
     fault |-> "none", unlinkFails |-> FALSE, chunks |-> 0, error |-> <<>>]

Step(fs, tmps, w) == [fs |-> fs, tmps |-> tmps, w |-> w]

\* the call: 'await fs.mkdir(dir, { recursive: true })' and the choice of tmpFile
WfaMkdir(fs, tmps, filePath, content, fault, unlinkFails) ==
    LET w == [pc |-> "writeFile", filePath |-> filePath, content |-> content,
              old |-> fs[filePath], fault |-> fault, unlinkFails |-> unlinkFails,
              chunks |-> 0, error |-> <<>>]
        \* tmpFile has a fresh random name: no file of that name exists
        fresh == [tmps EXCEPT ![filePath] = Missing]
    IN  IF fault = "mkdir"
        THEN Step(fs, fresh, [w EXCEPT !.pc = "threw", !.error = <<"EACCES: permission denied, mkdir">>])
        ELSE Step(fs, fresh, w)

\* faulty variant of WfaWriteFile: the content is written to the target itself
WfaWriteFileInPlace(fs, tmps, w) ==
    IF \/ w.fault = "open" /\ w.chunks = 0
       \/ w.fault = "writeFile" /\ w.chunks = MaxChunks - 1
    THEN Step(fs, tmps, [w EXCEPT !.pc = "unlink", !.error = <<"ENOSPC: no space left on device, write">>])
    ELSE IF w.chunks + 1 < MaxChunks
    THEN Step([fs EXCEPT ![w.filePath] = Partial], tmps, [w EXCEPT !.chunks = @ + 1])
    ELSE Step([fs EXCEPT ![w.filePath] = w.content], tmps, [w EXCEPT !.chunks = @ + 1, !.pc = "rename"])

\* 'await fs.writeFile(tmpFile, content)', one chunk at a time: the temporary file
\* holds the content in part until the last chunk; a fault ends it before that
WfaWriteFile(fs, tmps, w) ==
    IF \/ w.fault = "open" /\ w.chunks = 0
       \/ w.fault = "writeFile" /\ w.chunks = MaxChunks - 1
    THEN Step(fs, tmps, [w EXCEPT !.pc = "unlink", !.error = <<"ENOSPC: no space left on device, write">>])
    ELSE IF w.chunks + 1 < MaxChunks
    THEN Step(fs, [tmps EXCEPT ![w.filePath] = Partial], [w EXCEPT !.chunks = @ + 1])
    ELSE Step(fs, [tmps EXCEPT ![w.filePath] = w.content], [w EXCEPT !.chunks = @ + 1, !.pc = "rename"])

\* 'await fs.rename(tmpFile, filePath)': the target becomes the temporary file at once
WfaRename(fs, tmps, w) ==
    IF w.fault = "rename"
    THEN Step(fs, tmps, [w EXCEPT !.pc = "unlink", !.error = <<"EPERM: operation not permitted, rename">>])
    ELSE Step([fs EXCEPT ![w.filePath] = tmps[w.filePath]],
              [tmps EXCEPT ![w.filePath] = Missing],
              [w EXCEPT !.pc = "done"])

\* the catch block: 'await fs.unlink(tmpFile)' with its error ignored, then 'throw error'
WfaUnlink(fs, tmps, w) ==
    IF tmps[w.filePath] = Missing \/ w.unlinkFails
    THEN Step(fs, tmps, [w EXCEPT !.pc = "threw"])
    ELSE Step(fs, [tmps EXCEPT ![w.filePath] = Missing], [w EXCEPT !.pc = "threw"])

-----------------------------------------------------------------------------
(* Candidate paths.  A path is a record: the directory it names (dir; ""    *)
(* for the bare name), for a path under ~/.nvm/versions/node the entry of   *)
(* that directory (a sequence of characters), and the binary name.          *)

BarePath(name) == [dir |-> "", entry |-> <<>>, name |-> name]
BinPath(dir, name) == [dir |-> dir, entry |-> <<>>, name |-> name]
NvmPath(entry, name) == [dir |-> "~/.nvm/versions/node", entry |-> entry, name |-> name]

\* readdir(nvmDir): the entries, or a rejection when the directory is missing
NoNvm == [ok |-> FALSE, entries |-> <<>>]
Listing(entries) == [ok |-> TRUE, entries |-> entries]

\* entry.startsWith('v')
StartsWithV(entry) == Len(entry) > 0 /\ entry[1] = "v"

\* candidates.add(candidate) on a Set: insertion order, no duplicate
AddCandidate(candidates, c) ==
    IF \E i \in 1..Len(candidates) : candidates[i] = c
    THEN candidates
    ELSE Append(candidates, c)

RECURSIVE AddNvmEntries(_, _, _, _)
\* the loop over the entries of the nvm directory, from the i-th on
AddNvmEntries(candidates, entries, i, binaryName) ==
    IF i > Len(entries) THEN candidates
    ELSE IF ~StartsWithV(entries[i])
         THEN AddNvmEntries(candidates, entries, i + 1, binaryName)
    ELSE AddNvmEntries(AddCandidate(candidates, NvmPath(entries[i], binaryName)),
                       entries, i + 1, binaryName)

GetCandidatePaths(binaryName, plat, listing) ==
    LET bare == <<BarePath(binaryName)>> IN
    IF plat = "win32" THEN bare
    ELSE LET fixed ==
                 AddCandidate(AddCandidate(AddCandidate(AddCandidate(bare,
                     BinPath("/usr/local/bin", binaryName)),
                     BinPath("/opt/homebrew/bin", binaryName)),
                     BinPath("/usr/bin", binaryName)),
                     BinPath("~/.local/bin", binaryName))
         IN  IF listing.ok
             THEN AddNvmEntries(fixed, listing.entries, 1, binaryName)
             ELSE fixed

-----------------------------------------------------------------------------
(* detectBinary step by step.  A call is the record d: its position pc, the *)
(* binaries, the variant (b) and candidate (c) it is at, the candidates of  *)
(* the variant, the commands executed so far with whether each succeeded,   *)
(* how the last execution ended, and the value returned.                    *)

\* how execFileAsync(cmd, [versionFlag], { timeout }) ends: "ok" resolves (exit
\* status 0); it rejects when the process exits with a non-zero status ("nonzero",
\* its output is on the error), cannot be spawned ("enoent") or is killed at the
\* timeout ("timeout")
ExecOutcomes == {"ok", "nonzero", "enoent", "timeout"}

NoResult == [found |-> FALSE, path |-> <<>>, version |-> <<>>]
NoProbe ==
    [pc |-> "idle", binaries |-> <<>>, b |-> 0, c |-> 0, candidates |-> <<>>,
     executed |-> <<>>, outcome |-> "", result |-> NoResult]

\* the call: the loop over binaries starts
DetectCall(binaries) ==
    [NoProbe EXCEPT !.pc = "variant", !.binaries = binaries, !.b = 1]

\* 'for (const binary of binaries)': the candidates of the next variant, or the
\* final 'return { found: false, path: null, version: null }'
DetectVariant(d, plat, listing) ==
    IF d.b > Len(d.binaries)
    THEN [d EXCEPT !.pc = "done", !.result = NoResult]
    ELSE [d EXCEPT !.pc = "exec", !.c = 1,
                   !.candidates = GetCandidatePaths(d.binaries[d.b], plat, listing)]

\* faulty variant of DetectExec: the first failed execution ends the search
DetectExecGivesUp(d, outcome) ==
    LET cmd == d.candidates[d.c]
        ran(ok) == Append(d.executed, [cmd |-> cmd, ok |-> ok])
    IN  IF outcome = "ok"
        THEN [d EXCEPT !.executed = ran(TRUE), !.outcome = outcome,
                       !.pc = IF cmd.dir = "" THEN "which" ELSE "done",
                       !.result = [found |-> TRUE, path |-> <<cmd>>, version |-> <<"1.0.0">>]]
        ELSE [d EXCEPT !.executed = ran(FALSE), !.outcome = outcome,
                       !.pc = "done", !.result = NoResult]

\* one pass of 'for (const cmd of candidates)': the command runs; when
\* execFileAsync resolves the result is found with the first line of the output as
\* version, when it rejects the next candidate (or variant) is tried
DetectExec(d, outcome) ==
    LET cmd == d.candidates[d.c]
        ran(ok) == Append(d.executed, [cmd |-> cmd, ok |-> ok])
    IN  IF outcome = "ok"
        THEN [d EXCEPT !.executed = ran(TRUE), !.outcome = outcome,
                       !.pc = IF cmd.dir = "" THEN "which" ELSE "done",
                       !.result = [found |-> TRUE, path |-> <<cmd>>, version |-> <<"1.0.0">>]]
        ELSE IF d.c < Len(d.candidates)
        THEN [d EXCEPT !.executed = ran(FALSE), !.outcome = outcome, !.c = @ + 1]
        ELSE [d EXCEPT !.executed = ran(FALSE), !.outcome = outcome,
                       !.b = @ + 1, !.pc = "variant"]

\* the lookup of a bare name with which / where: its first line when it gives one,
\* the bare name otherwise
DetectWhich(d, resolved) ==
    IF resolved
    THEN [d EXCEPT !.pc = "done",
                   !.result.path = <<BinPath("$PATH", d.candidates[d.c].name)>>]
    ELSE [d EXCEPT !.pc = "done"]

-----------------------------------------------------------------------------
(* Detection *)

\* faulty variant of DetectBinary: reports found when no candidate ran
DetectBinaryNeverMisses(binaries, inst) ==
    [found |-> TRUE, path |-> binaries[1], version |-> "1.0.0"]

\* The first binary variant, in list order, one of whose candidates runs;
\* 'inst' holds the binary names for which a candidate runs.
DetectBinary(binaries, inst) ==
    LET hits == {i \in 1..Len(binaries) : binaries[i] \in inst} IN
    IF hits = {}
    THEN [found |-> FALSE, path |-> "", version |-> ""]
    ELSE LET first == CHOOSE i \in hits : \A j \in hits : i <= j
         IN  [found |-> TRUE, path |-> binaries[first], version |-> "1.0.0"]

-----------------------------------------------------------------------------
(* Per-agent enable / disable logic.  Each returns the file system it      *)
(* leaves and either the details string or the error it threw.             *)

Done(fs, details) == [ok |-> TRUE, fs |-> fs, details |-> details, error |-> <<>>]
Threw(fs, msg) == [ok |-> FALSE, fs |-> fs, details |-> <<>>, error |-> msg]

\* a write followed by 'return details'
WriteThen(w, details) == IF w.ok THEN Done(w.fs, details) ELSE Threw(w.fs, w.error)

\* faulty variant of GetOrCreateObject: replaces an existing object too
GetOrCreateObjectAlwaysNew(parent, key) == Put(parent, key, Obj(<<>>))

\* parent with parent[key] made a plain object (kept when it already is one)
GetOrCreateObject(parent, key) ==
    IF Get(parent, key).t = "obj" THEN parent ELSE Put(parent, key, Obj(<<>>))

\* getTomlString(config, key) === expected
TomlStringIs(config, key, expected) ==
    Get(config, key).t = "str" /\ Get(config, key).s = expected

EnableClaudeCode(fs, configPath, io) ==
    LET r == ReadJsonConfig(fs, configPath) IN
    IF ~r.ok THEN Threw(fs, r.error)
    ELSE LET config == GetOrCreateObject(r.config, "permissions")
             permissions == Put(Get(config, "permissions").o, "defaultMode", Str("bypassPermissions"))
         IN  WriteThen(WriteJsonConfig(fs, configPath, Put(config, "permissions", Obj(permissions)), io),
                       <<"Set permissions.defaultMode = \"bypassPermissions\"">>)

\* faulty variant of DisableClaudeCode: deletes the whole permissions object
DisableClaudeCodeDropsPermissions(fs, configPath, io) ==
    LET r == ReadJsonConfig(fs, configPath) IN
    IF ~r.ok THEN Threw(fs, r.error)
    ELSE LET permissions == Get(r.config, "permissions") IN
         IF permissions.t = "obj" /\ Get(permissions.o, "defaultMode") = Str("bypassPermissions")
         THEN WriteThen(WriteJsonConfig(fs, configPath, Del(r.config, "permissions"), io),
                        <<"Removed permissions.defaultMode">>)
         ELSE Done(fs, <<"Already disabled (no bypassPermissions found)">>)

\* faulty variant of DisableClaudeCode: an emptied permissions object is kept
DisableClaudeCodeKeepsEmpty(fs, configPath, io) ==
    LET r == ReadJsonConfig(fs, configPath) IN
    IF ~r.ok THEN Threw(fs, r.error)
    ELSE LET permissions == Get(r.config, "permissions") IN
         IF permissions.t = "obj" /\ Get(permissions.o, "defaultMode") = Str("bypassPermissions")
         THEN WriteThen(WriteJsonConfig(fs, configPath,
                                        Put(r.config, "permissions",
                                            Obj(Del(permissions.o, "defaultMode"))), io),
                        <<"Removed permissions.defaultMode">>)
         ELSE Done(fs, <<"Already disabled (no bypassPermissions found)">>)

DisableClaudeCode(fs, configPath, io) ==
    LET r == ReadJsonConfig(fs, configPath) IN
    IF ~r.ok THEN Threw(fs, r.error)
    ELSE LET permissions == Get(r.config, "permissions") IN
         IF permissions.t = "obj" /\ Get(permissions.o, "defaultMode") = Str("bypassPermissions")
         THEN LET perms == Del(permissions.o, "defaultMode")
                  config == IF Keys(perms) = {}
                            THEN Del(r.config, "permissions")
                            ELSE Put(r.config, "permissions", Obj(perms))
              IN  WriteThen(WriteJsonConfig(fs, configPath, config, io),
                            <<"Removed permissions.defaultMode">>)
         ELSE Done(fs, <<"Already disabled (no bypassPermissions found)">>)

IsClaudeCodeEnabled(config) ==
    LET permissions == Get(config, "permissions") IN
    /\ permissions.t = "obj"
    /\ Get(permissions.o, "defaultMode") = Str("bypassPermissions")

\* faulty variant of EnableCodex: sets approval_policy only
EnableCodexOnlyApproval(fs, configPath, io) ==
    LET r == ReadTomlConfig(fs, configPath) IN
    IF ~r.ok THEN Threw(fs, r.error)
    ELSE WriteThen(WriteTomlConfig(fs, configPath, Put(r.config, "approval_policy", Str("never")), io),
                   <<"Set approval_policy = \"never\", sandbox_mode = \"danger-full-access\"">>)

EnableCodex(fs, configPath, io) ==
    LET r == ReadTomlConfig(fs, configPath) IN
    IF ~r.ok THEN Threw(fs, r.error)
    ELSE LET config == Put(Put(r.config, "approval_policy", Str("never")),
                           "sandbox_mode", Str("danger-full-access"))
         IN  WriteThen(WriteTomlConfig(fs, configPath, config, io),
                       <<"Set approval_policy = \"never\", sandbox_mode = \"danger-full-access\"">>)

\* faulty variant of DisableCodex: writes the config back also when unchanged
DisableCodexAlwaysWrites(fs, configPath, io) ==
    LET r == ReadTomlConfig(fs, configPath) IN
    IF ~r.ok THEN Threw(fs, r.error)
    ELSE LET dropApproval == TomlStringIs(r.config, "approval_policy", "never")
             config1 == IF dropApproval THEN Del(r.config, "approval_policy") ELSE r.config
             dropSandbox == TomlStringIs(config1, "sandbox_mode", "danger-full-access")
             config2 == IF dropSandbox THEN Del(config1, "sandbox_mode") ELSE config1
         IN  WriteThen(WriteTomlConfig(fs, configPath, config2, io),
                       IF dropApproval \/ dropSandbox
                       THEN <<"Removed approval_policy and sandbox_mode overrides">>
                       ELSE <<"Already disabled (no yolo settings found)">>)

\* faulty variant of DisableCodex: one sentinel found removes both keys
DisableCodexRemovesBoth(fs, configPath, io) ==
    LET r == ReadTomlConfig(fs, configPath) IN
    IF ~r.ok THEN Threw(fs, r.error)
    ELSE IF \/ TomlStringIs(r.config, "approval_policy", "never")
            \/ TomlStringIs(r.config, "sandbox_mode", "danger-full-access")
         THEN WriteThen(WriteTomlConfig(fs, configPath,
                                        Del(Del(r.config, "approval_policy"), "sandbox_mode"), io),
                        <<"Removed approval_policy and sandbox_mode overrides">>)
         ELSE Done(fs, <<"Already disabled (no yolo settings found)">>)

DisableCodex(fs, configPath, io) ==
    LET r == ReadTomlConfig(fs, configPath) IN
    IF ~r.ok THEN Threw(fs, r.error)
    ELSE LET dropApproval == TomlStringIs(r.config, "approval_policy", "never")
             config1 == IF dropApproval THEN Del(r.config, "approval_policy") ELSE r.config
             dropSandbox == TomlStringIs(config1, "sandbox_mode", "danger-full-access")
             config2 == IF dropSandbox THEN Del(config1, "sandbox_mode") ELSE config1
             changed == dropApproval \/ dropSandbox
         IN  IF changed
             THEN WriteThen(WriteTomlConfig(fs, configPath, config2, io),
                            <<"Removed approval_policy and sandbox_mode overrides">>)
             ELSE Done(fs, <<"Already disabled (no yolo settings found)">>)

\* faulty variant of IsCodexEnabled: one sentinel is enough
IsCodexEnabledEitherKey(config) ==
    \/ TomlStringIs(config, "approval_policy", "never")
    \/ TomlStringIs(config, "sandbox_mode", "danger-full-access")

IsCodexEnabled(config) ==
    /\ TomlStringIs(config, "approval_policy", "never")
    /\ TomlStringIs(config, "sandbox_mode", "danger-full-access")

\* faulty variant of EnableCopilot: adds a folder to trusted_folders on each call
EnableCopilotAddsFolder(fs, configPath, io) ==
    LET r == ReadJsonConfig(fs, configPath) IN
    IF ~r.ok THEN Threw(fs, r.error)
    ELSE LET folders == IF Get(r.config, "trusted_folders").t = "arr"
                        THEN Get(r.config, "trusted_folders").o
                        ELSE <<>>
             config == Put(r.config, "trusted_folders",
                           Arr(Append(folders, Entry("next", Str("/cwd")))))
         IN  WriteThen(WriteJsonConfig(fs, configPath, config, io),
                       <<"No persistent yolo toggle exists for Copilot. Use 'copilot --yolo' per-session. Config preserved.">>)

EnableCopilot(fs, configPath, io) ==
    LET r == ReadJsonConfig(fs, configPath) IN
    IF ~r.ok THEN Threw(fs, r.error)
    ELSE LET config == IF Get(r.config, "trusted_folders").t = "arr"
                       THEN r.config
                       ELSE Put(r.config, "trusted_folders", Arr(<<>>))
         IN  WriteThen(WriteJsonConfig(fs, configPath, config, io),
                       <<"No persistent yolo toggle exists for Copilot. Use 'copilot --yolo' per-session. Config preserved.">>)

DisableCopilot(fs, configPath, io) ==
    Done(fs, <<"No persistent yolo toggle to disable. Stop using 'copilot --yolo' flag.">>)

EnableAmplifier(fs, configPath, io) ==
    Done(fs, <<"No persistent yolo toggle exists for Amplifier. Run 'amplifier' to start or 'amplifier run \"<prompt>\"' for one-shot use.">>)

DisableAmplifier(fs, configPath, io) ==
    Done(fs, <<"No persistent yolo toggle to disable for Amplifier.">>)

-----------------------------------------------------------------------------
(* enableYolo, disableYolo, checkYoloStatus *)

Failure(a, msg) ==
    [type |-> a, displayName |-> DisplayName(a), success |-> FALSE,
     error |-> msg, config |-> <<>>]

Success(a, enabled, sessionOnly, details) ==
    [type |-> a, displayName |-> DisplayName(a), success |-> TRUE, error |-> <<>>,
     config |-> <<[enabled |-> enabled, sessionOnly |-> sessionOnly,
                   configPath |-> ConfigPath(a), cliFlag |-> YoloFlag(a),
                   details |-> details]>>]

\* the switch of enableYolo: the per-agent enable function
EnableSwitch(a, fs, io) ==
    CASE a = "claude-code" -> EnableClaudeCode(fs, ConfigPath(a), io)
      [] a = "codex" -> EnableCodex(fs, ConfigPath(a), io)
      [] a = "copilot" -> EnableCopilot(fs, ConfigPath(a), io)
      [] a = "amplifier" -> EnableAmplifier(fs, ConfigPath(a), io)

\* faulty variant of EnableReportsEnabled: every successful enable reports enabled
EnableReportsEnabledAlways(a) == TRUE

\* `enabled` of enableYolo: false, set to true in the claude-code and codex cases
EnableReportsEnabled(a) == a \in {"claude-code", "codex"}

\* enableYolo(agentType) run on file system fs with binaries inst installed
EnableYoloOutcome(a, fs, inst, io) ==
    IF ~DetectBinary(Binaries(a), inst).found
    THEN [fs |-> fs,
          result |-> Failure(a, <<"Not installed. Install with: ", InstallCommand(a)>>)]
    ELSE LET sessionOnly == ~PersistentToggle(a)
             o == EnableSwitch(a, fs, io)
         IN  [fs |-> o.fs,
              result |-> IF o.ok
                         THEN Success(a, EnableReportsEnabled(a), sessionOnly, o.details)
                         ELSE Failure(a, o.error)]

\* the switch of disableYolo: the per-agent disable function
DisableSwitch(a, fs, io) ==
    CASE a = "claude-code" -> DisableClaudeCode(fs, ConfigPath(a), io)
      [] a = "codex" -> DisableCodex(fs, ConfigPath(a), io)
      [] a = "copilot" -> DisableCopilot(fs, ConfigPath(a), io)
      [] a = "amplifier" -> DisableAmplifier(fs, ConfigPath(a), io)

\* faulty variant of DisableYoloOutcome: requires detection, as enableYolo does
DisableYoloDetectsFirst(a, fs, inst, io) ==
    IF ~DetectBinary(Binaries(a), inst).found
    THEN [fs |-> fs,
          result |-> Failure(a, <<"Not installed. Install with: ", InstallCommand(a)>>)]
    ELSE LET o == DisableSwitch(a, fs, io)
         IN  [fs |-> o.fs,
              result |-> IF o.ok THEN Success(a, FALSE, ~PersistentToggle(a), o.details)
                                 ELSE Failure(a, o.error)]

\* disableYolo(agentType): inst, the installed binaries, is never consulted
DisableYoloOutcome(a, fs, inst, io) ==
    LET sessionOnly == ~PersistentToggle(a)
        o == DisableSwitch(a, fs, io)
    IN  [fs |-> o.fs,
         result |-> IF o.ok THEN Success(a, FALSE, sessionOnly, o.details)
                            ELSE Failure(a, o.error)]

\* faulty variant of EnableAllOutcome: the first failed agent ends the batch
EnableAllStopsAtFailure(fs, inst, ios) ==
    LET o1 == EnableYoloOutcome(AgentTypes[1], fs, inst, ios[1])
        o2 == EnableYoloOutcome(AgentTypes[2], o1.fs, inst, ios[2])
        o3 == EnableYoloOutcome(AgentTypes[3], o2.fs, inst, ios[3])
        o4 == EnableYoloOutcome(AgentTypes[4], o3.fs, inst, ios[4])
    IN  IF ~o1.result.success THEN [fs |-> o1.fs, results |-> <<o1.result>>]
        ELSE IF ~o2.result.success THEN [fs |-> o2.fs, results |-> <<o1.result, o2.result>>]
        ELSE IF ~o3.result.success
             THEN [fs |-> o3.fs, results |-> <<o1.result, o2.result, o3.result>>]
        ELSE [fs |-> o4.fs, results |-> <<o1.result, o2.result, o3.result, o4.result>>]

\* enableAll(): Promise.all(types.map(enableYolo)); ios[i] is what the disk does
\* for the i-th agent.  Every enableYolo resolves, so the array has one result per
\* type, in the order of types.
EnableAllOutcome(fs, inst, ios) ==
    LET o1 == EnableYoloOutcome(AgentTypes[1], fs, inst, ios[1])
        o2 == EnableYoloOutcome(AgentTypes[2], o1.fs, inst, ios[2])
        o3 == EnableYoloOutcome(AgentTypes[3], o2.fs, inst, ios[3])
        o4 == EnableYoloOutcome(AgentTypes[4], o3.fs, inst, ios[4])
    IN  [fs |-> o4.fs, results |-> <<o1.result, o2.result, o3.result, o4.result>>]

\* disableAll(): Promise.all(types.map(disableYolo))
DisableAllOutcome(fs, inst, ios) ==
    LET o1 == DisableYoloOutcome(AgentTypes[1], fs, inst, ios[1])
        o2 == DisableYoloOutcome(AgentTypes[2], o1.fs, inst, ios[2])
        o3 == DisableYoloOutcome(AgentTypes[3], o2.fs, inst, ios[3])
        o4 == DisableYoloOutcome(AgentTypes[4], o3.fs, inst, ios[4])
    IN  [fs |-> o4.fs, results |-> <<o1.result, o2.result, o3.result, o4.result>>]

\* faulty variant of StatusOf: the config is read whether or not the binary runs
StatusOfIgnoresDetection(a, fs, inst) ==
    LET sessionOnly == ~PersistentToggle(a)
        r == IF a = "codex" THEN ReadTomlConfig(fs, ConfigPath(a))
             ELSE ReadJsonConfig(fs, ConfigPath(a))
        enabled == /\ a \in {"claude-code", "codex"}
                   /\ r.ok
                   /\ (IF a = "codex" THEN IsCodexEnabled(r.config) ELSE IsClaudeCodeEnabled(r.config))
    IN  Success(a, enabled, sessionOnly, <<"Default permissions">>)

\* one iteration of the loop of checkYoloStatus
StatusOf(a, fs, inst) ==
    LET sessionOnly == ~PersistentToggle(a) IN
    IF ~DetectBinary(Binaries(a), inst).found
    THEN Success(a, FALSE, sessionOnly, <<"Not installed">>)
    ELSE CASE a = "claude-code" ->
                LET r == ReadJsonConfig(fs, ConfigPath(a))
                    enabled == r.ok /\ IsClaudeCodeEnabled(r.config)
                IN  Success(a, enabled, sessionOnly,
                        IF ~r.ok THEN <<"Could not read config (">> \o r.error \o <<")">>
                        ELSE IF enabled THEN <<"permissions.defaultMode = \"bypassPermissions\"">>
                        ELSE <<"Default permissions">>)
           [] a = "codex" ->
                LET r == ReadTomlConfig(fs, ConfigPath(a))
                    enabled == r.ok /\ IsCodexEnabled(r.config)
                IN  Success(a, enabled, sessionOnly,
                        IF ~r.ok THEN <<"Could not read config (">> \o r.error \o <<")">>
                        ELSE IF enabled
                        THEN <<"approval_policy = \"never\", sandbox_mode = \"danger-full-access\"">>
                        ELSE <<"Default approval policy">>)
           [] a = "copilot" ->
                Success(a, FALSE, sessionOnly, <<"No persistent yolo toggle (use --yolo flag)">>)
           [] a = "amplifier" ->
                Success(a, FALSE, sessionOnly,
                        <<"No persistent yolo toggle. Run 'amplifier' or 'amplifier run \"<prompt>\"'.">>)

CheckYoloStatusOutcome(fs, inst) ==
    [i \in 1..Len(AgentTypes) |-> StatusOf(AgentTypes[i], fs, inst)]

-----------------------------------------------------------------------------
(* Initial contents of the config files *)

ExtraKeyNames == <<"model", "env", "theme">>
SiblingKeyNames == <<"allow", "deny", "ask">>

ExtraKeys(n) == [i \in 1..n |-> Entry(ExtraKeyNames[i], Str("x"))]
SiblingKeys(n) == [i \in 1..n |-> Entry(SiblingKeyNames[i], Arr(<<Entry("0", Str("Edit"))>>))]

OptEntry(key, v) == IF v = Undefined THEN <<>> ELSE <<Entry(key, v)>>

ClaudePermissions ==
    {Undefined, Null, Str("ask"), Arr(<<Entry("0", Str("Edit"))>>)}
    \cup {Obj(OptEntry("defaultMode", dm) \o SiblingKeys(m)) :
            dm \in {Undefined, Str("bypassPermissions"), Str("acceptEdits")},
            m \in 0..MaxExtraKeys}

ClaudeContents ==
    {Missing, Garbage, JsonText(Arr(<<>>))}
    \cup {JsonText(Obj(ExtraKeys(n) \o OptEntry("permissions", p))) :
            n \in 0..MaxExtraKeys, p \in ClaudePermissions}

TomlTables(n) == IF n = 0 THEN <<>> ELSE <<Entry("tui", Obj(<<Entry("notifications", Bool("true"))>>))>>

CodexContents ==
    {Missing, Garbage}
    \cup {TomlText(ExtraKeys(n) \o OptEntry("approval_policy", ap)
                   \o OptEntry("sandbox_mode", sm) \o TomlTables(n)) :
            n \in 0..MaxExtraKeys,
            ap \in {Undefined, Str("never"), Str("on-request"), Bool("true")},
            sm \in {Undefined, Str("danger-full-access"), Str("read-only")}}

CopilotContents ==
    {Missing, Garbage,
     JsonText(Obj(<<>>)),
     JsonText(Obj(<<Entry("trusted_folders", Arr(<<Entry("0", Str("/repo"))>>))>>)),
     JsonText(Obj(<<Entry("trusted_folders", Str("/repo"))>>))}

Contents(a) ==
    CASE a = "claude-code" -> ClaudeContents
      [] a = "codex" -> CodexContents
      [] a = "copilot" -> CopilotContents
      [] a = "amplifier" -> {Missing}

NoCall == [op |-> "none", results |-> <<>>]

Init ==
    /\ \E a \in Agents : \E c \in Contents(a) :
          files = [p \in Paths |-> IF p = ConfigPath(a) THEN c ELSE Missing]
    /\ installed \in SUBSET AllBinaries
    /\ last = NoCall
    /\ tmpFiles = [p \in Paths |-> Missing]
    /\ writer = Idle
    /\ platform = "linux"
    /\ nvmDir = NoNvm
    /\ probe = NoProbe
    /\ env = [v \in EnvNames |-> ""]
    /\ dotfiles = [p \in SearchPathSet |-> NoFile]
    /\ secretsData = NoData
    /\ modes = NoPerms
    /\ profiles = [p \in ProfilePaths |-> NoData]
    /\ held = <<>>
    /\ race = NoRace

-----------------------------------------------------------------------------
(* The environment: agent CLIs get installed and uninstalled *)

Install(b) ==
    /\ b \notin installed
    /\ installed' = installed \cup {b}
    /\ last' = NoCall
    /\ UNCHANGED <<files, writeVars, detectVars, secretVars, shellVars, race>>

Uninstall(b) ==
    /\ b \in installed
    /\ installed' = installed \ {b}
    /\ last' = NoCall
    /\ UNCHANGED <<files, writeVars, detectVars, secretVars, shellVars, race>>

EnableYolo(a) ==
    \E io \in IoModes :
        LET out == EnableYoloOutcome(a, files, installed, io) IN
        /\ files' = out.fs
        /\ last' = [op |-> "enable", results |-> <<out.result>>]
        /\ UNCHANGED <<installed, writeVars, detectVars, secretVars, shellVars, race>>

DisableYolo(a) ==
    \E io \in IoModes :
        LET out == DisableYoloOutcome(a, files, installed, io) IN
        /\ files' = out.fs
        /\ last' = [op |-> "disable", results |-> <<out.result>>]
        /\ UNCHANGED <<installed, writeVars, detectVars, secretVars, shellVars, race>>

CheckYoloStatus ==
    /\ last' = [op |-> "status", results |-> CheckYoloStatusOutcome(files, installed)]
    /\ UNCHANGED <<files, installed, writeVars, detectVars, secretVars, shellVars, race>>

Next ==
    \/ \E a \in Agents : EnableYolo(a)
    \/ \E a \in Agents : DisableYolo(a)
    \/ CheckYoloStatus
    \/ \E b \in AllBinaries : Install(b)
    \/ \E b \in AllBinaries : Uninstall(b)

Spec == Init /\ [][Next]_vars

-----------------------------------------------------------------------------
(* Properties.  A step that leaves last.op = "enable" (or "disable") for   *)
(* agent a is a call of enableYolo(a) (or disableYolo(a)): the unprimed    *)
(* variables are the state before the call, the primed ones the state and  *)
(* the result after it.                                                    *)

Result == last.results[1]
Called(op, a) == last.op = op /\ last.results[1].type = a
Succeeded(op, a) == Called(op, a) /\ last.results[1].success

BinarySet(a) == {Binaries(a)[i] : i \in 1..Len(Binaries(a))}
NoBinaryInstalled(a) == BinarySet(a) \cap installed = {}

\* the map a config file holds: none for a missing file
ConfigIn(c) == IF c.kind = "missing" THEN <<>> ELSE c.doc.o

\* the file can be read as agent a's config
Readable(a, c) ==
    \/ c.kind = "missing"
    \/ a \in {"claude-code", "copilot"} /\ c.kind = "json" /\ c.doc.t = "obj"
    \/ a = "codex" /\ c.kind = "toml"

HoldsDefaultModeSentinel(config) ==
    /\ Get(config, "permissions").t = "obj"
    /\ Get(Get(config, "permissions").o, "defaultMode") = Str("bypassPermissions")
HoldsApprovalSentinel(config) == Get(config, "approval_policy") = Str("never")
HoldsSandboxSentinel(config) == Get(config, "sandbox_mode") = Str("danger-full-access")

HoldsSomeSentinel(a, config) ==
    \/ a = "claude-code" /\ HoldsDefaultModeSentinel(config)
    \/ a = "codex" /\ (HoldsApprovalSentinel(config) \/ HoldsSandboxSentinel(config))

OtherFilesKept(a) == \A p \in Paths \ {ConfigPath(a)} : files'[p] = files[p]

\* C1: enableYolo(agent) with no binary of the agent detected returns success=false
\* with the error "Not installed. Install with: <install command>" and no config,
\* and leaves every file as it was.
C1_EnableNotInstalled ==
    [][\A a \in Agents :
          (Called("enable", a)' /\ NoBinaryInstalled(a))
          => /\ files' = files
             /\ Result'.success = FALSE
             /\ Result'.error = <<"Not installed. Install with: ", InstallCommand(a)>>
             /\ Result'.config = <<>>]_vars

C1_Witness ==
    /\ Called("enable", "codex") /\ NoBinaryInstalled("codex")
    /\ Result.error = <<"Not installed. Install with: ", InstallCommand("codex")>>
    /\ files[ConfigPath("codex")] = Missing
    /\ "claude" \in installed

\* C2: disableYolo(agent) never consults detection: the files and the result a call
\* leaves are the ones it leaves with the agent's binaries installed and the ones it
\* leaves with none of them installed, and a config holding the sentinel is reverted also when the agent is not installed.
C2_DisableIgnoresDetection ==
    [][\A a \in Agents :
          Called("disable", a)'
          => /\ \E io \in IoModes :
                   \A inst \in {installed \ BinarySet(a), installed \cup BinarySet(a)} :
                       LET out == DisableYoloOutcome(a, files, inst, io)
                       IN  out.fs = files' /\ out.result = Result'
             /\ (Result'.success /\ Readable(a, files[ConfigPath(a)]))
                => ~HoldsSomeSentinel(a, ConfigIn(files'[ConfigPath(a)]))]_vars

C2_Witness ==
    /\ Succeeded("disable", "claude-code") /\ NoBinaryInstalled("claude-code")
    /\ Result.config[1].details = <<"Removed permissions.defaultMode">>
    /\ ~HoldsDefaultModeSentinel(ConfigIn(files[ConfigPath("claude-code")]))

\* C3: enable is idempotent: a successful enableYolo(agent) that directly follows a
\* successful enableYolo(agent) leaves every file as the first call left it.
C3_EnableIdempotent ==
    [][\A a \in Agents :
          (Succeeded("enable", a) /\ Succeeded("enable", a)') => files' = files]_vars

\* a successful enable of codex happened, and a second one can follow it here
C3_Witness ==
    /\ Succeeded("enable", "codex")
    /\ HasKey(ConfigIn(files[ConfigPath("codex")]), "tui")
    /\ ENABLED (EnableYolo("codex") /\ Succeeded("enable", "codex")')

\* C4: disabling claude-code or codex when the readable config holds none of the
\* agent's sentinel values writes nothing (a missing file stays missing) and reports
\* "Already disabled".
C4_DisableAlreadyDisabled ==
    [][\A a \in {"claude-code", "codex"} :
          (/\ Called("disable", a)'
           /\ Readable(a, files[ConfigPath(a)])
           /\ ~HoldsSomeSentinel(a, ConfigIn(files[ConfigPath(a)])))
          => /\ files' = files
             /\ Result'.success
             /\ Result'.config[1].details \in
                   {<<"Already disabled (no bypassPermissions found)">>,
                    <<"Already disabled (no yolo settings found)">>}]_vars

C4_Witness ==
    /\ Succeeded("disable", "claude-code")
    /\ Result.config[1].details = <<"Already disabled (no bypassPermissions found)">>
    /\ Get(Get(ConfigIn(files[ConfigPath("claude-code")]), "permissions").o, "defaultMode")
          = Str("acceptEdits")

\* C5: a successful disable of Claude Code whose permissions.defaultMode is
\* "bypassPermissions" removes exactly that key: every other top-level key and every
\* other key of permissions keeps its value, and permissions itself is removed iff
\* defaultMode was its only key.
C5_DisableClaudeRemovesOnlyDefaultMode ==
    [][LET a == "claude-code"
           pre == ConfigIn(files[ConfigPath(a)])
           post == ConfigIn(files'[ConfigPath(a)])
           prePerms == Get(pre, "permissions").o
           postPerms == Get(post, "permissions").o
       IN  (/\ Succeeded("disable", a)'
            /\ Readable(a, files[ConfigPath(a)])
            /\ HoldsDefaultModeSentinel(pre))
           => /\ Readable(a, files'[ConfigPath(a)]) /\ files'[ConfigPath(a)] # Missing
              /\ OtherFilesKept(a)
              /\ Keys(post) \ {"permissions"} = Keys(pre) \ {"permissions"}
              /\ \A k \in Keys(pre) \ {"permissions"} : Get(post, k) = Get(pre, k)
              /\ HasKey(post, "permissions") <=> Keys(prePerms) # {"defaultMode"}
              /\ HasKey(post, "permissions")
                 => /\ Get(post, "permissions").t = "obj"
                    /\ Keys(postPerms) = Keys(prePerms) \ {"defaultMode"}
                    /\ \A k \in Keys(postPerms) : Get(postPerms, k) = Get(prePerms, k)]_vars

C5_Witness ==
    LET config == ConfigIn(files[ConfigPath("claude-code")]) IN
    /\ Succeeded("disable", "claude-code")
    /\ Result.config[1].details = <<"Removed permissions.defaultMode">>
    /\ HasKey(config, "model")
    /\ Keys(Get(config, "permissions").o) = {"allow"}

\* C6: a successful enable of Claude Code on a config that is a JSON object keeps
\* every other top-level key and every key already inside a permissions object; all
\* it adds or changes is permissions.defaultMode (a permissions value that is not an
\* object is replaced by an object holding only defaultMode).
C6_EnableClaudePreserves ==
    [][LET a == "claude-code"
           pre == ConfigIn(files[ConfigPath(a)])
           post == ConfigIn(files'[ConfigPath(a)])
           prePerms == IF Get(pre, "permissions").t = "obj"
                       THEN Get(pre, "permissions").o ELSE <<>>
           postPerms == Get(post, "permissions").o
       IN  (Succeeded("enable", a)' /\ Readable(a, files[ConfigPath(a)]))
           => /\ Readable(a, files'[ConfigPath(a)]) /\ files'[ConfigPath(a)] # Missing
              /\ OtherFilesKept(a)
              /\ Keys(post) = Keys(pre) \cup {"permissions"}
              /\ \A k \in Keys(pre) \ {"permissions"} : Get(post, k) = Get(pre, k)
              /\ Get(post, "permissions").t = "obj"
              /\ Keys(postPerms) = Keys(prePerms) \cup {"defaultMode"}
              /\ \A k \in Keys(prePerms) \ {"defaultMode"} : Get(postPerms, k) = Get(prePerms, k)
              /\ Get(postPerms, "defaultMode") = Str("bypassPermissions")]_vars

C6_Witness ==
    LET config == ConfigIn(files[ConfigPath("claude-code")]) IN
    /\ Succeeded("enable", "claude-code")
    /\ Get(config, "model") = Str("x")
    /\ Get(Get(config, "permissions").o, "allow") = Arr(<<Entry("0", Str("Edit"))>>)
    /\ HoldsDefaultModeSentinel(config)

\* C7: checkYoloStatus reports Codex enabled iff the binary is detected and the
\* config holds both approval_policy = "never" and sandbox_mode =
\* "danger-full-access" as strings; one of the two alone is reported not enabled.
C7_CodexEnabledNeedsBoth ==
    last.op = "status"
    => LET c == files[ConfigPath("codex")] IN
       last.results[2].config[1].enabled
       <=> /\ ~NoBinaryInstalled("codex")
           /\ c.kind = "toml"
           /\ HoldsApprovalSentinel(ConfigIn(c))
           /\ HoldsSandboxSentinel(ConfigIn(c))

C7_Witness ==
    /\ last.op = "status" /\ "codex" \in installed
    /\ HoldsApprovalSentinel(ConfigIn(files[ConfigPath("codex")]))
    /\ ~HoldsSandboxSentinel(ConfigIn(files[ConfigPath("codex")]))
    /\ ~last.results[2].config[1].enabled

\* C8: a successful disable of Codex removes approval_policy iff it is "never" and
\* sandbox_mode iff it is "danger-full-access", each decided on its own, and keeps
\* every other key with its value.
C8_DisableCodexIndependent ==
    [][LET a == "codex"
           pre == ConfigIn(files[ConfigPath(a)])
           post == ConfigIn(files'[ConfigPath(a)])
           removed == {k \in {"approval_policy"} : HoldsApprovalSentinel(pre)}
                      \cup {k \in {"sandbox_mode"} : HoldsSandboxSentinel(pre)}
       IN  (Succeeded("disable", a)' /\ Readable(a, files[ConfigPath(a)]))
           => /\ Readable(a, files'[ConfigPath(a)])
              /\ OtherFilesKept(a)
              /\ Keys(post) = Keys(pre) \ removed
              /\ \A k \in Keys(post) : Get(post, k) = Get(pre, k)]_vars

C8_Witness ==
    LET config == ConfigIn(files[ConfigPath("codex")]) IN
    /\ Succeeded("disable", "codex")
    /\ Result.config[1].details = <<"Removed approval_policy and sandbox_mode overrides">>
    /\ Get(config, "sandbox_mode") = Str("read-only")
    /\ ~HasKey(config, "approval_policy")
    /\ HasKey(config, "model")

OnlySentinels == <<Entry("approval_policy", Str("never")),
                   Entry("sandbox_mode", Str("danger-full-access"))>>

\* C9: a successful enable of Codex on a missing config file creates the file with
\* exactly approval_policy = "never" and sandbox_mode = "danger-full-access"; a
\* successful disable of a file holding exactly those two keys leaves a file that
\* exists and parses to the empty map.
C9_CodexScenario ==
    [][LET p == ConfigPath("codex") IN
       /\ (Succeeded("enable", "codex")' /\ files[p] = Missing)
          => files'[p] = TomlText(OnlySentinels)
       /\ (Succeeded("disable", "codex")' /\ files[p] = TomlText(OnlySentinels))
          => (files'[p].kind = "toml" /\ ConfigIn(files'[p]) = <<>>)]_vars

C9_Witness ==
    /\ Succeeded("disable", "codex")
    /\ Result.config[1].details = <<"Removed approval_policy and sandbox_mode overrides">>
    /\ files[ConfigPath("codex")] = TomlText(<<>>)

C11_NoToggleNoDiskEffect ==
    [][\A a \in {b \in Agents : ~PersistentToggle(b)} :
          (Called("enable", a)' \/ Called("disable", a)') => files' = files]_vars

\* C12: every entry of the agent table has a config path iff it has a persistent
\* toggle; stated of the entries the last call looked up.
C12_ConfigPathIffToggle ==
    \A i \in 1..Len(last.results) :
        LET a == last.results[i].type IN HasConfigPath(a) <=> PersistentToggle(a)

-----------------------------------------------------------------------------
(* The config store called directly: readJsonConfig and readTomlConfig are  *)
(* exported, and are run here on any of the files.                          *)

InitStore ==
    /\ \E a \in Agents : \E c \in Contents(a) :
          files = [p \in Paths |-> IF p = ConfigPath(a) THEN c ELSE Missing]
    /\ installed = {}
    /\ last = NoCall
    /\ tmpFiles = [p \in Paths |-> Missing]
    /\ writer = Idle
    /\ platform = "linux"
    /\ nvmDir = NoNvm
    /\ probe = NoProbe
    /\ env = [v \in EnvNames |-> ""]
    /\ dotfiles = [p \in SearchPathSet |-> NoFile]
    /\ secretsData = NoData
    /\ modes = NoPerms
    /\ profiles = [p \in ProfilePaths |-> NoData]
    /\ held = <<>>
    /\ race = NoRace

ReadJsonConfigCall(p) ==
    /\ last' = [op |-> "readJson", results |-> <<[path |-> p, out |-> ReadJsonConfig(files, p)]>>]
    /\ UNCHANGED <<files, installed, writeVars, detectVars, secretVars, shellVars, race>>

ReadTomlConfigCall(p) ==
    /\ last' = [op |-> "readToml", results |-> <<[path |-> p, out |-> ReadTomlConfig(files, p)]>>]
    /\ UNCHANGED <<files, installed, writeVars, detectVars, secretVars, shellVars, race>>

NextStore ==
    \/ \E p \in Paths : ReadJsonConfigCall(p)
    \/ \E p \in Paths : ReadTomlConfigCall(p)

SpecStore == InitStore /\ [][NextStore]_vars

ReadCalled == last.op \in {"readJson", "readToml"}
ReadPath == last.results[1].path
ReadOut == last.results[1].out
ReturnedEmpty == ReadOut.ok /\ ReadOut.config = <<>>

\* the text of the file parses in the format the call reads
Parses(op, c) ==
    \/ op = "readJson" /\ c.kind = "json" /\ c.doc.t = "obj"
    \/ op = "readToml" /\ c.kind = "toml"

\* C13 as stated: readJsonConfig and readTomlConfig return the empty map exactly
\* when the file does not exist.
C13_EmptyExactlyWhenMissing ==
    ReadCalled => (ReturnedEmpty <=> files[ReadPath] = Missing)

\* C13 as amended: a missing file reads as the empty map; a file that exists and
\* parses reads as the map it holds (the empty map only if it holds no key); a file
\* that exists and does not parse, or as JSON is not an object, makes the read throw
\* an error naming the path, and never reads as the empty map.
C13_ReadMissingOrThrow ==
    ReadCalled =>
        LET c == files[ReadPath] IN
        /\ c = Missing => ReturnedEmpty
        /\ Parses(last.op, c) => (ReadOut.ok /\ ReadOut.config = c.doc.o)
        /\ (c # Missing /\ ~Parses(last.op, c))
           => /\ ~ReadOut.ok
              /\ \E i \in 1..Len(ReadOut.error) : ReadOut.error[i] = ReadPath

C13_Witness ==
    /\ last.op = "readJson" /\ files[ReadPath] = JsonText(Arr(<<>>))
    /\ ReadOut.error = <<"Expected a JSON object in ", ReadPath>>

-----------------------------------------------------------------------------
(* writeFileAtomic called directly and run one step at a time *)

\* the files written and what is written: the configs enableClaudeCode and
\* enableCodex write for a missing file
WritePaths == {ConfigPath("claude-code"), ConfigPath("codex")}
WriteContents ==
    {JsonStringify(<<Entry("permissions", Obj(<<Entry("defaultMode", Str("bypassPermissions"))>>))>>),
     TomlText(<<Entry("approval_policy", Str("never")),
                Entry("sandbox_mode", Str("danger-full-access"))>>)}

InitWrite ==
    /\ \E c \in {Missing, Garbage, JsonText(Obj(ExtraKeys(MaxExtraKeys)))} :
          files = [p \in Paths |-> IF p = ConfigPath("claude-code") THEN c ELSE Missing]
    /\ installed = {}
    /\ last = NoCall
    /\ tmpFiles = [p \in Paths |-> Missing]
    /\ writer = Idle
    /\ platform = "linux"
    /\ nvmDir = NoNvm
    /\ probe = NoProbe
    /\ env = [v \in EnvNames |-> ""]
    /\ dotfiles = [p \in SearchPathSet |-> NoFile]
    /\ secretsData = NoData
    /\ modes = NoPerms
    /\ profiles = [p \in ProfilePaths |-> NoData]
    /\ held = <<>>
    /\ race = NoRace

\* the outcome of a step becomes the state
Becomes(st) ==
    /\ files' = st.fs
    /\ tmpFiles' = st.tmps
    /\ writer' = st.w
    /\ UNCHANGED <<installed, last, detectVars, secretVars, shellVars, race>>

WriteFileAtomicCall(filePath, content) ==
    /\ writer.pc = "idle"
    /\ \E fault \in Faults : \E unlinkFails \in BOOLEAN :
          Becomes(WfaMkdir(files, tmpFiles, filePath, content, fault, unlinkFails))

WriteFileStep ==
    /\ writer.pc = "writeFile"
    /\ Becomes(WfaWriteFile(files, tmpFiles, writer))

RenameStep ==
    /\ writer.pc = "rename"
    /\ Becomes(WfaRename(files, tmpFiles, writer))

UnlinkStep ==
    /\ writer.pc = "unlink"
    /\ Becomes(WfaUnlink(files, tmpFiles, writer))

\* the promise settles and the caller goes on
WriteFileAtomicReturn ==
    /\ writer.pc \in {"done", "threw"}
    /\ writer' = Idle
    /\ UNCHANGED <<files, tmpFiles, installed, last, detectVars, secretVars, shellVars, race>>

NextWrite ==
    \/ \E p \in WritePaths : \E c \in WriteContents : WriteFileAtomicCall(p, c)
    \/ WriteFileStep
    \/ RenameStep
    \/ UnlinkStep
    \/ WriteFileAtomicReturn

SpecWrite == InitWrite /\ [][NextWrite]_vars

-----------------------------------------------------------------------------
(* enableAll and disableAll *)

\* what the disk does for each agent of a batch; enableAmplifier and
\* disableAmplifier make no file system call
IoChoices ==
    {ios \in [1..Len(AgentTypes) -> IoModes] :
        \A i \in 1..Len(AgentTypes) : AgentTypes[i] = "amplifier" => ios[i] = "ok"}

EnableAll ==
    \E ios \in IoChoices :
        LET out == EnableAllOutcome(files, installed, ios) IN
        /\ files' = out.fs
        /\ last' = [op |-> "enableAll", results |-> out.results]
        /\ UNCHANGED <<installed, writeVars, detectVars, secretVars, shellVars, race>>

DisableAll ==
    \E ios \in IoChoices :
        LET out == DisableAllOutcome(files, installed, ios) IN
        /\ files' = out.fs
        /\ last' = [op |-> "disableAll", results |-> out.results]
        /\ UNCHANGED <<installed, writeVars, detectVars, secretVars, shellVars, race>>

NextAll ==
    \/ EnableAll
    \/ DisableAll
    \/ \E b \in AllBinaries : Install(b)
    \/ \E b \in AllBinaries : Uninstall(b)

SpecAll == Init /\ [][NextAll]_vars

\* C15: enableAll and disableAll return exactly one result per agent, in the order
\* claude-code, codex, copilot, amplifier; an agent's failure is its own result with
\* success=false and an error; and every agent's result and the content of its
\* config file are the ones that agent's operation alone gives on the files as they
\* were before the batch, whichever other agents failed.
C15_BatchIsolated ==
    [][last'.op \in {"enableAll", "disableAll"}
       => /\ Len(last'.results) = Len(AgentTypes)
          /\ \A i \in 1..Len(AgentTypes) :
                LET a == AgentTypes[i]
                    r == last'.results[i]
                IN  /\ r.type = a
                    /\ r.success <=> r.config # <<>>
                    /\ ~r.success <=> r.error # <<>>
                    /\ \E io \in IoModes :
                          LET alone == IF last'.op = "enableAll"
                                       THEN EnableYoloOutcome(a, files, installed, io)
                                       ELSE DisableYoloOutcome(a, files, installed, io)
                          IN  /\ r = alone.result
                              /\ files'[ConfigPath(a)] = alone.fs[ConfigPath(a)]]_vars

\* enableAll where Claude Code's config is malformed and Codex is not installed:
\* both fail, Copilot's enable ran and created its file
C15_Witness ==
    /\ last.op = "enableAll"
    /\ files[ConfigPath("claude-code")] = Garbage
    /\ ~last.results[1].success /\ ~last.results[2].success
    /\ last.results[3].success /\ last.results[4].success
    /\ files[ConfigPath("copilot")] # Missing

-----------------------------------------------------------------------------
(* detectBinary run one step at a time, on any platform and nvm directory *)

\* names of entries of ~/.nvm/versions/node
NvmEntryNames ==
    {<<"v", "2", "0">>, <<"v", "1", "8", ".", "2">>, <<"v", "e", "n", "v">>, <<"l", "t", "s">>}

\* the listings readdir can give: the entries of a directory are distinct
NvmListings ==
    {Listing(es) : es \in {f \in UNION {[1..n -> NvmEntryNames] : n \in 0..MaxNvmEntries} :
                               \A i, j \in DOMAIN f : f[i] = f[j] => i = j}}

InitDetect ==
    /\ files = [p \in Paths |-> Missing]
    /\ installed = {}
    /\ last = NoCall
    /\ tmpFiles = [p \in Paths |-> Missing]
    /\ writer = Idle
    /\ platform \in {"linux", "win32"}
    /\ nvmDir \in {NoNvm} \cup NvmListings
    /\ probe = NoProbe
    /\ env = [v \in EnvNames |-> ""]
    /\ dotfiles = [p \in SearchPathSet |-> NoFile]
    /\ secretsData = NoData
    /\ modes = NoPerms
    /\ profiles = [p \in ProfilePaths |-> NoData]
    /\ held = <<>>
    /\ race = NoRace

ProbeBecomes(d) ==
    /\ probe' = d
    /\ UNCHANGED <<files, installed, last, writeVars, platform, nvmDir, secretVars, shellVars, race>>

DetectBinaryCall(a) ==
    /\ probe.pc = "idle"
    /\ ProbeBecomes(DetectCall(Binaries(a)))

VariantStep ==
    /\ probe.pc = "variant"
    /\ ProbeBecomes(DetectVariant(probe, platform, nvmDir))

ExecStep ==
    /\ probe.pc = "exec"
    /\ \E outcome \in ExecOutcomes : ProbeBecomes(DetectExec(probe, outcome))

WhichStep ==
    /\ probe.pc = "which"
    /\ \E resolved \in BOOLEAN : ProbeBecomes(DetectWhich(probe, resolved))

DetectBinaryReturn ==
    /\ probe.pc = "done"
    /\ ProbeBecomes(NoProbe)

NextDetect ==
    \/ \E a \in Agents : DetectBinaryCall(a)
    \/ VariantStep
    \/ ExecStep
    \/ WhichStep
    \/ DetectBinaryReturn

SpecDetect == InitDetect /\ [][NextDetect]_vars

RECURSIVE AllCandidates(_, _)
\* the candidates of the variants from the i-th on, in the order of the variants
AllCandidates(binaries, i) ==
    IF i > Len(binaries) THEN <<>>
    ELSE GetCandidatePaths(binaries[i], platform, nvmDir) \o AllCandidates(binaries, i + 1)

Commands(executed) == [i \in 1..Len(executed) |-> executed[i].cmd]
IsPrefix(s, t) == Len(s) <= Len(t) /\ s = SubSeq(t, 1, Len(s))

\* C16: detectBinary executes the candidates of the first variant in order, then
\* those of the next variant; an execution that fails or times out is followed by
\* the next candidate; the result is found for the first execution that succeeds,
\* which is the last command executed; and when every candidate of every variant
\* has failed the result is found=false with null path and version.
C16_FirstSuccessInOrder ==
    probe.pc # "idle"
    => LET n == Len(probe.executed) IN
       /\ IsPrefix(Commands(probe.executed), AllCandidates(probe.binaries, 1))
       /\ \A i \in 1..(n - 1) : ~probe.executed[i].ok
       /\ probe.pc \in {"variant", "exec"} => \A i \in 1..n : ~probe.executed[i].ok
       /\ probe.pc \in {"which", "done"}
          => /\ probe.result.found <=> (n > 0 /\ probe.executed[n].ok)
             /\ probe.result.found
                => /\ Len(probe.result.path) = 1
                   /\ probe.result.path[1].name = probe.executed[n].cmd.name
                   /\ probe.result.path[1] # probe.executed[n].cmd
                      => probe.executed[n].cmd.dir = ""
             /\ ~probe.result.found
                => /\ Commands(probe.executed) = AllCandidates(probe.binaries, 1)
                   /\ probe.result.path = <<>>
                   /\ probe.result.version = <<>>

\* found through the second variant after every candidate of the first failed
C16_Witness ==
    /\ probe.pc = "done" /\ probe.result.found
    /\ probe.binaries = <<"amplifier", "amp">>
    /\ Len(probe.executed) > Len(GetCandidatePaths("amplifier", platform, nvmDir)) + 1
    /\ probe.result.path[1].name = "amp"

\* C17: a candidate that runs and exits with a non-zero status while producing
\* output is a successful probe: detectBinary reports found=true for it, with the
\* version taken from its output.
C17_NonZeroExitIsFound ==
    (probe.executed # <<>> /\ probe.outcome = "nonzero")
    => /\ probe.executed[Len(probe.executed)].ok
       /\ probe.pc = "done" => (probe.result.found /\ probe.result.version # <<>>)

\* the entry is named v<digits...>
MatchesVDigits(entry) ==
    /\ Len(entry) > 1 /\ entry[1] = "v"
    /\ \A i \in 2..Len(entry) :
          entry[i] \in {"0", "1", "2", "3", "4", "5", "6", "7", "8", "9", "."}

\* C18: getCandidatePaths(name) is duplicate-free and starts with the bare name; on
\* a platform other than Windows the /usr/local/bin, /opt/homebrew/bin, /usr/bin
\* and ~/.local/bin paths follow, and then exactly one bin path for each entry of
\* ~/.nvm/versions/node named v<digits...>: other entries, and a missing
\* directory, add nothing.
C18_CandidatePaths ==
    probe.pc = "exec"
    => LET name == probe.binaries[probe.b]
           cs == probe.candidates
           extra == SubSeq(cs, 6, Len(cs))
           matching == IF nvmDir.ok THEN SelectSeq(nvmDir.entries, MatchesVDigits) ELSE <<>>
       IN  /\ \A i, j \in 1..Len(cs) : cs[i] = cs[j] => i = j
           /\ cs[1] = BarePath(name)
           /\ platform # "win32"
              => /\ Len(cs) >= 5
                 /\ SubSeq(cs, 2, 5) = <<BinPath("/usr/local/bin", name),
                                         BinPath("/opt/homebrew/bin", name),
                                         BinPath("/usr/bin", name),
                                         BinPath("~/.local/bin", name)>>
                 /\ Len(extra) = Len(matching)
                 /\ {extra[i] : i \in 1..Len(extra)}
                       = {NvmPath(matching[i], name) : i \in 1..Len(matching)}

-----------------------------------------------------------------------------
(* Secrets: scans, key status and interactive setups *)

\* the lines a file can hold at the start
LineKinds ==
    {Assign("ANTHROPIC_API_KEY", "sk-a"), Assign("ANTHROPIC_API_KEY", "sk-b"),
     Assign("AMPLIFIER_CONFIGURED", "yes"), Assign("EDITOR", "vim"), Comment}

\* the search paths at which a file can exist at the start
StartPaths == <<SECRETS_FILE, "~/.env", "~/.zshrc", AmplifierKeysFile>>

\* the ways to place at most MaxLines lines in the files of StartPaths: each
\* element gives, line after line, the file (by index) and the line
Placements ==
    {pl \in UNION {[1..n -> (1..Len(StartPaths)) \X LineKinds] : n \in 0..MaxLines} :
        \A i \in 1..(Len(pl) - 1) : pl[i][1] <= pl[i + 1][1]}

\* the files a placement gives
Placed(pl) ==
    [p \in SearchPathSet |->
        LET at(e) == StartPaths[e[1]] = p
            mine == SelectSeq(pl, at)
        IN  IF mine = <<>> THEN NoFile
            ELSE EnvFile([i \in 1..Len(mine) |-> mine[i][2]])]

\* the variables the environment can set at the start
StartEnvs ==
    {[v \in EnvNames |-> IF v = "ANTHROPIC_API_KEY" THEN a
                          ELSE IF v = "AMPLIFIER_CONFIGURED" THEN c ELSE ""] :
        a \in {"", "sk-env"}, c \in {"", "1"}}

\* the trimmed answers typed at the prompts of one setup, one per API_KEYS entry
\* (none is asked for AMPLIFIER_CONFIGURED)
AnswerChoices ==
    {<<a, o, "", "">> : a \in {"", "sk-typed"}, o \in {"", "sk-typed"}}

InitSecrets ==
    /\ files = [p \in Paths |-> Missing]
    /\ installed = {}
    /\ last = NoCall
    /\ tmpFiles = [p \in Paths |-> Missing]
    /\ writer = Idle
    /\ platform = "linux"
    /\ nvmDir = NoNvm
    /\ probe = NoProbe
    /\ env \in StartEnvs
    /\ \E pl \in Placements : dotfiles = Placed(pl)
    /\ secretsData = NoData
    /\ modes = NoPerms
    /\ profiles = [p \in ProfilePaths |-> NoData]
    /\ held = <<>>
    /\ race = NoRace

ScanForExistingKeysCall ==
    /\ last' = [op |-> "scan", results |-> <<ScanForExistingKeys(env, dotfiles)>>]
    /\ UNCHANGED <<files, installed, writeVars, detectVars, secretVars, shellVars, race>>

CheckApiKeyStatusCall ==
    /\ last' = [op |-> "keyStatus", results |-> CheckApiKeyStatusOutcome(env, dotfiles)]
    /\ UNCHANGED <<files, installed, writeVars, detectVars, secretVars, shellVars, race>>

InteractiveSetup ==
    \E answers \in AnswerChoices : \E io \in IoModes :
        LET out == InteractiveSetupOutcome(env, dotfiles, answers, io) IN
        /\ dotfiles' = out.fs
        /\ last' = [op |-> "setup",
                    results |-> <<[answers |-> answers, ok |-> out.ok,
                                   saved |-> out.saved, skipped |-> out.skipped]>>]
        /\ UNCHANGED <<files, installed, writeVars, detectVars, env, shellVars, race>>

NextSecrets ==
    \/ ScanForExistingKeysCall
    \/ CheckApiKeyStatusCall
    \/ InteractiveSetup

SpecSecrets == InitSecrets /\ [][NextSecrets]_vars

\* the sources of a scan in precedence order
Sources == <<"environment">> \o SearchPaths

\* the source holds the variable
HeldBy(src, v) ==
    IF src = "environment" THEN env[v] # ""
    ELSE dotfiles[src].exists
         /\ \E i \in 1..Len(dotfiles[src].lines) : dotfiles[src].lines[i].k = v

\* the value the source gives the variable: in a file, that of its first line
ValueIn(src, v) ==
    IF src = "environment" THEN env[v]
    ELSE LET ls == dotfiles[src].lines
             first == CHOOSE i \in 1..Len(ls) : ls[i].k = v /\ \A j \in 1..(i - 1) : ls[j].k # v
         IN  ls[first].v

\* the variable is reported exactly when a source from the from-th on holds it,
\* with the value and the name of the first such source
FirstSourceWins(found, v, from) ==
    LET holders == {n \in from..Len(Sources) : HeldBy(Sources[n], v)} IN
    /\ HasKey(found, v) <=> holders # {}
    /\ holders # {}
       => LET n == CHOOSE m \in holders : \A o \in holders : m <= o IN
          /\ MapGet(found, v).source = Sources[n]
          /\ MapGet(found, v).value = ValueIn(Sources[n], v)

\* C19 as stated: scanForExistingKeys reports every variable of the API-key table
\* from the first source that holds it, the environment first, then the secrets
\* file, then the dotfiles in list order, and reports no other variable.
C19_FirstSourceWinsEveryKey ==
    last.op = "scan"
    => LET found == last.results[1] IN
       /\ Keys(found) \subseteq TargetVars
       /\ \A v \in TargetVars : FirstSourceWins(found, v, 1)

\* C19 as amended: that precedence holds for ANTHROPIC_API_KEY, OPENAI_API_KEY and
\* GITHUB_TOKEN; AMPLIFIER_CONFIGURED is never taken from the environment: it is
\* reported from the first file that assigns it, and otherwise with the value
\* "configured" exactly when ~/.amplifier/keys.env holds an assignment with a value;
\* no variable outside the table is reported.
C19_FirstSourceWins ==
    last.op = "scan"
    => LET found == last.results[1]
           amp == "AMPLIFIER_CONFIGURED"
       IN  /\ Keys(found) \subseteq TargetVars
           /\ \A v \in TargetVars \ {amp} : FirstSourceWins(found, v, 1)
           /\ (\E n \in 2..Len(Sources) : HeldBy(Sources[n], amp))
              => FirstSourceWins(found, amp, 2)
           /\ ~(\E n \in 2..Len(Sources) : HeldBy(Sources[n], amp))
              => /\ HasKey(found, amp) <=> CheckAmplifierKeys(dotfiles).configured
                 /\ HasKey(found, amp)
                    => MapGet(found, amp) = [value |-> "configured", source |-> AmplifierKeysFile]

\* the environment, the secrets file and ~/.env give ANTHROPIC_API_KEY three values
C19_Witness ==
    /\ last.op = "scan"
    /\ env["ANTHROPIC_API_KEY"] = "sk-env"
    /\ HeldBy(SECRETS_FILE, "ANTHROPIC_API_KEY") /\ HeldBy("~/.env", "ANTHROPIC_API_KEY")
    /\ ValueIn(SECRETS_FILE, "ANTHROPIC_API_KEY") # ValueIn("~/.env", "ANTHROPIC_API_KEY")
    /\ MapGet(last.results[1], "ANTHROPIC_API_KEY") = [value |-> "sk-env", source |-> "environment"]

\* the values the assignments of a file give
ValuesOf(f) == {f.lines[i].v : i \in {j \in 1..Len(f.lines) : Parsed(f.lines[j])}}

\* C20: scanForExistingKeys and checkApiKeyStatus write no file; an interactive
\* setup changes no file but the secrets file, and every value the secrets file
\* holds after it was in the secrets file before it or is an answer typed at one of
\* its prompts.
C20_ScanOnlySuggests ==
    [][/\ last'.op \in {"scan", "keyStatus"} => (dotfiles' = dotfiles /\ files' = files)
       /\ last'.op = "setup"
          => /\ \A p \in SearchPathSet \ {SECRETS_FILE} : dotfiles'[p] = dotfiles[p]
             /\ files' = files
             /\ ValuesOf(dotfiles'[SECRETS_FILE])
                   \subseteq ValuesOf(dotfiles[SECRETS_FILE])
                              \cup {last'.results[1].answers[i] : i \in 1..Len(API_KEYS)}]_vars

\* after a setup that skipped ANTHROPIC_API_KEY, which the environment and ~/.env
\* hold, and saved a typed OPENAI_API_KEY
C20_Witness ==
    /\ last.op = "setup" /\ last.results[1].ok
    /\ env["ANTHROPIC_API_KEY"] = "sk-env" /\ HeldBy("~/.env", "ANTHROPIC_API_KEY")
    /\ last.results[1].answers[1] = ""
    /\ ~HeldBy(SECRETS_FILE, "ANTHROPIC_API_KEY")
    /\ MapGet(ReadSecrets(dotfiles), "OPENAI_API_KEY") = "sk-typed"

-----------------------------------------------------------------------------
(* The secrets file as text: writeSecrets, readSecrets and setups *)

\* the characters of a secret value
ValueChars == {"n", SP, DQ, BS, Backtick, Dollar, LF, CR, TAB, LS}

\* the values of at most n characters
ValuesUpTo(n) == UNION {[1..m -> ValueChars] : m \in 0..n}

\* the maps a caller passes to writeSecrets: a real key with any value, and
\* with a short value beside another real key and a key outside the table
StartMaps ==
    {<<Entry("OPENAI_API_KEY", v)>> : v \in ValuesUpTo(MaxValueLen)}
    \cup {a \o <<Entry("OPENAI_API_KEY", v)>> \o e :
            v \in ValuesUpTo(1),
            a \in {<<>>, <<Entry("ANTHROPIC_API_KEY", <<"n">>)>>},
            e \in {<<Entry("FOO", <<>>)>>, <<Entry("FOO", <<DQ>>)>>}}

\* lines a user has put in the secrets file by hand
ManualLines ==
    {<<"FOO", Eq, "n">>,
     <<"FOO", Eq, SQ, "n", SP, Hash, SQ>>,
     <<"export", SP, "OPENAI_API_KEY", Eq, DQ, BS, "n", DQ, SP, Hash, SP, "n">>,
     <<"foo", Eq, "n">>,
     <<Hash, SP, "n">>}

\* the secrets file and the modes at the start
StartFiles ==
    {<<NoData, [dir |-> d, file |-> "absent"]>> : d \in {"absent", "0700", "0755"}}
    \cup {<<Data(JoinLines(<<l, <<>>>>)), m>> :
            l \in ManualLines,
            m \in {[dir |-> "0700", file |-> "0600"], [dir |-> "0755", file |-> "0644"]}}
    \cup {<<Data(JoinLines(<<<<"FOO", Eq, "n">>, <<"EDITOR", SP, Eq, SP, "n", SP, SP, Hash, "n">>>>)),
            [dir |-> "0755", file |-> "0600"]>>}

\* the trimmed answers typed at the prompts of one setup
TypedAnswers ==
    {<<a, o, <<>>, <<>>>> : a \in {<<>>, <<"n", Dollar>>}, o \in {<<>>, <<"n", DQ>>}}

InitFile ==
    /\ files = [p \in Paths |-> Missing]
    /\ installed = {}
    /\ last = NoCall
    /\ tmpFiles = [p \in Paths |-> Missing]
    /\ writer = Idle
    /\ platform = "linux"
    /\ nvmDir = NoNvm
    /\ probe = NoProbe
    /\ env = [v \in EnvNames |-> ""]
    /\ dotfiles = [p \in SearchPathSet |-> NoFile]
    /\ \E f \in StartFiles : secretsData = f[1] /\ modes = f[2]
    /\ profiles = [p \in ProfilePaths |-> NoData]
    /\ held \in StartMaps
    \* the longer values are written on a first run, with no ~/.letsyolo yet
    /\ (\E i \in 1..Len(held) : Len(held[i].v) > 1) => modes.dir = "absent"
    /\ race = NoRace

\* writeSecrets(held)
WriteSecretsCall ==
    \E io \in {"ok", "mkdirFail", "writeFail", "chmodFail"} :
        LET out == WriteSecretsData(secretsData, modes, held, io) IN
        /\ secretsData' = out.file
        /\ modes' = out.modes
        /\ last' = [op |-> "writeSecrets", results |-> <<[ok |-> out.ok]>>]
        /\ UNCHANGED <<files, installed, writeVars, detectVars, secretVars, profiles, held, race>>

\* held = await readSecrets()
ReadSecretsCall ==
    /\ held' = ReadSecretsData(secretsData)
    /\ last' = [op |-> "readSecrets", results |-> <<[ok |-> TRUE]>>]
    /\ UNCHANGED <<files, installed, writeVars, detectVars, secretVars, secretsData, modes,
                   profiles, race>>

\* interactiveSetup() on the text of the file
SetupSession ==
    \E answers \in TypedAnswers : \E io \in {"ok", "writeFail"} :
        LET existing == SetAnswers(ReadSecretsData(secretsData), answers, 1)
            out == WriteSecretsData(secretsData, modes, existing, io)
        IN  /\ held' = existing
            /\ secretsData' = out.file
            /\ modes' = out.modes
            /\ last' = [op |-> "setupSession", results |-> <<[ok |-> out.ok]>>]
            /\ UNCHANGED <<files, installed, writeVars, detectVars, secretVars, profiles, race>>

NextFile ==
    \/ WriteSecretsCall
    \/ ReadSecretsCall
    \/ SetupSession

SpecFile == InitFile /\ [][NextFile]_vars

\* the entries of a map whose key is outside the API-key table
ExtraEntries(secrets) ==
    {secrets[i] : i \in {j \in 1..Len(secrets) : secrets[j].k \notin TargetVars}}

\* the map holds the entry
Holds(secrets, e) == HasKey(secrets, e.k) /\ GetText(secrets, e.k) = e.v

\* the step is a call of op that returned
StepReturned(op) == last'.op = op /\ last'.results[1].ok

C22_RoundTrip ==
    (last.op = "writeSecrets" /\ last.results[1].ok)
    => \A i \in 1..Len(held) :
          held[i].k \in TargetVars \ {"AMPLIFIER_CONFIGURED"}
          => Holds(ReadSecretsData(secretsData), held[i])

\* C23: after a writeSecrets that returns, the secrets file has mode 0600 and
\* its directory mode 0700.
C23_OwnerOnlyAfterWrite ==
    (last.op = "writeSecrets" /\ last.results[1].ok)
    => modes.file = "0600" /\ modes.dir = "0700"

-----------------------------------------------------------------------------
(* Display of secrets: maskKey and the prompt of interactiveSetup *)

\* text.slice(0, n)
SliceTo(text, n) == SubSeq(text, 1, IF n < Len(text) THEN n ELSE Len(text))

\* text.slice(-n)
SliceLast(text, n) == SubSeq(text, IF Len(text) > n THEN Len(text) - n + 1 ELSE 1, Len(text))

Mask == <<"*", "*", "*", "*">>
Ellipsis == <<".", ".", ".">>

\* faulty variant of MaskKey: one character more of the head is shown
MaskKeyShowsNine(key) ==
    IF Len(key) <= 12 THEN Mask ELSE SliceTo(key, 9) \o Ellipsis \o SliceLast(key, 4)

\* maskKey(key)
MaskKey(key) ==
    IF Len(key) <= 12 THEN Mask ELSE SliceTo(key, 8) \o Ellipsis \o SliceLast(key, 4)

\* what the prompt of interactiveSetup shows of the current value
CurrentDisplay(current) ==
    LET masked == IF current # <<>>
                  THEN SliceTo(current, 8) \o Ellipsis \o SliceLast(current, 4)
                  ELSE <<>>
    IN  IF masked # <<>> THEN <<" [current: ">> \o masked \o <<"]">> ELSE <<>>

\* the characters of a key
KeyChars == {"a", "b"}

\* the keys of at most MaxKeyLen characters
KeyValues == UNION {[1..n -> KeyChars] : n \in 0..MaxKeyLen}

InitMask ==
    /\ files = [p \in Paths |-> Missing]
    /\ installed = {}
    /\ last = NoCall
    /\ tmpFiles = [p \in Paths |-> Missing]
    /\ writer = Idle
    /\ platform = "linux"
    /\ nvmDir = NoNvm
    /\ probe = NoProbe
    /\ env = [v \in EnvNames |-> ""]
    /\ dotfiles = [p \in SearchPathSet |-> NoFile]
    /\ secretsData = NoData
    /\ modes = NoPerms
    /\ profiles = [p \in ProfilePaths |-> NoData]
    /\ \E v \in KeyValues : held = <<Entry("OPENAI_API_KEY", v)>>
    /\ race = NoRace

\* maskKey(held.get('OPENAI_API_KEY'))
MaskKeyCall ==
    /\ last' = [op |-> "maskKey",
                results |-> <<[value |-> held[1].v, shown |-> MaskKey(held[1].v)]>>]
    /\ UNCHANGED <<files, installed, writeVars, detectVars, secretVars, shellVars, race>>

\* the prompt of interactiveSetup for OPENAI_API_KEY, held being the map read
SetupPrompt ==
    /\ last' = [op |-> "prompt",
                results |-> <<[value |-> held[1].v, shown |-> CurrentDisplay(held[1].v)]>>]
    /\ UNCHANGED <<files, installed, writeVars, detectVars, secretVars, shellVars, race>>

NextMask ==
    \/ MaskKeyCall
    \/ SetupPrompt

SpecMask == InitMask /\ [][NextMask]_vars

\* sub occurs in text
Contains(text, sub) ==
    \E i \in 0..(Len(text) - Len(sub)) : SubSeq(text, i + 1, i + Len(sub)) = sub

\* the characters of a key between its first 8 and its last 4
Middle(key) == SubSeq(key, 9, Len(key) - 4)

\* the keys that differ from key in the middle at most
SameEnds(key) ==
    {SliceTo(key, 8) \o m \o SliceLast(key, 4) : m \in [1..(Len(key) - 12) -> KeyChars]}

\* the first 8 characters, three dots, the last 4 characters
HeadAndTail(key) == SubSeq(key, 1, 8) \o <<".", ".", ".">> \o SubSeq(key, Len(key) - 3, Len(key))

\* C24 as stated: maskKey gives one mask for every value of at most 12 characters
\* and, for a longer value, its first 8 characters, three dots and its last 4
\* characters, a text in which the middle of the value does not occur.
C24_MaskHidesMiddle ==
    last.op = "maskKey"
    => LET v == last.results[1].value
           out == last.results[1].shown
       IN  /\ Len(v) <= 12 => out = <<"*", "*", "*", "*">>
           /\ Len(v) > 12 => (out = HeadAndTail(v) /\ ~Contains(out, Middle(v)))

\* C24 as amended: the same mask and the same form, and the output for a longer
\* value does not depend on its middle: every value with the same first 8 and
\* last 4 characters and the same length gets the same output.
C24_MaskKey ==
    last.op = "maskKey"
    => LET v == last.results[1].value
           out == last.results[1].shown
       IN  /\ Len(v) <= 12 => out = <<"*", "*", "*", "*">>
           /\ Len(v) > 12 => (out = HeadAndTail(v) /\ \A w \in SameEnds(v) : MaskKey(w) = out)

\* a value of 13 characters whose middle differs from its neighbours was masked
C24_Witness ==
    /\ last.op = "maskKey"
    /\ Len(last.results[1].value) = 13
    /\ last.results[1].value[9] = "b"
    /\ \A i \in (1..13) \ {9} : last.results[1].value[i] = "a"
    /\ last.results[1].shown = HeadAndTail(last.results[1].value)

\* C29: what maskKey and the setup prompt show holds no character of a value of
\* at most 12 characters, and for a longer value does not depend on its middle.
C29_DisplayRevealsLittle ==
    last.op \in {"maskKey", "prompt"}
    => LET v == last.results[1].value
           out == last.results[1].shown
       IN  /\ Len(v) <= 12 => \A i \in 1..Len(out) : out[i] \notin KeyChars
           /\ Len(v) > 12
              => \A w \in SameEnds(v) :
                    out = (IF last.op = "maskKey" THEN MaskKey(w) ELSE CurrentDisplay(w))

-----------------------------------------------------------------------------
(* The hook in the shell profiles *)

\* '.letsyolo/secrets.env', what isSourcedIn looks for
Fragment == <<".letsyolo", "/", "secrets.env">>

\* getSourceLine(): on win32 the path separators of SECRETS_FILE are backslashes,
\* each of them doubled
GetSourceLine(plat) ==
    IF plat = "win32"
    THEN <<".", SP, DQ, "C:", BS, BS, "Users", BS, BS, "me", BS, BS,
           ".letsyolo", BS, BS, "secrets.env", DQ>>
    ELSE <<"[ -f ", DQ, Dollar, "HOME", "/">> \o Fragment \o <<DQ, " ] && source ", DQ,
           Dollar, "HOME", "/">> \o Fragment \o <<DQ>>

\* the text addSourceLine appends
Addition(plat) == <<LF, Hash, SP, "letsyolo API keys", LF>> \o GetSourceLine(plat) \o <<LF>>

\* content.includes(sub)
Includes(content, sub) ==
    \E i \in 0..(Len(content) - Len(sub)) : SubSeq(content, i + 1, i + Len(sub)) = sub

\* isSourcedIn(profilePath): false for a missing file
IsSourcedIn(f) == f.exists /\ Includes(f.data, Fragment)

\* addSourceLine(profilePath) on the profile f: whether it returns, what it
\* returns and the profile it leaves
AddSourceLine(f, plat, io) ==
    IF IsSourcedIn(f) THEN [ok |-> TRUE, added |-> FALSE, file |-> f]
    ELSE IF io = "writeFail" THEN [ok |-> FALSE, added |-> FALSE, file |-> f]
    ELSE [ok |-> TRUE, added |-> TRUE,
          file |-> Data((IF f.exists THEN f.data ELSE <<>>) \o Addition(plat))]

\* the number of places of content at which the text appended by the tool begins
HookCount(content, plat) ==
    Cardinality({i \in 0..(Len(content) - Len(Addition(plat))) :
                    SubSeq(content, i + 1, i + Len(Addition(plat))) = Addition(plat)})

\* the profiles at the start: missing, empty, with lines of the user, and with
\* the hook after them
StartProfiles(plat) ==
    LET own == <<"export", SP, "FOO", Eq, DQ, "bar", DQ, LF>> IN
    {NoData, Data(<<>>), Data(own), Data(own \o Addition(plat))}

InitProfile ==
    /\ files = [p \in Paths |-> Missing]
    /\ installed = {}
    /\ last = NoCall
    /\ tmpFiles = [p \in Paths |-> Missing]
    /\ writer = Idle
    /\ platform \in {"linux", "darwin", "win32"}
    /\ nvmDir = NoNvm
    /\ probe = NoProbe
    /\ env = [v \in EnvNames |-> ""]
    /\ dotfiles = [p \in SearchPathSet |-> NoFile]
    /\ secretsData = NoData
    /\ modes = NoPerms
    /\ profiles \in [ProfilePaths -> StartProfiles(platform)]
    /\ held = <<>>
    /\ race = NoRace

AddSourceLineCall(p) ==
    \E io \in IoModes :
        LET out == AddSourceLine(profiles[p], platform, io) IN
        /\ HookCount(profiles[p].data, platform) < MaxHooks
        /\ profiles' = [profiles EXCEPT ![p] = out.file]
        /\ last' = [op |-> "addSourceLine",
                    results |-> <<[path |-> p, ok |-> out.ok, added |-> out.added]>>]
        /\ UNCHANGED <<files, installed, writeVars, detectVars, secretVars, secretsData, modes,
                       held, race>>

IsSourcedInCall(p) ==
    /\ last' = [op |-> "isSourcedIn",
                results |-> <<[path |-> p, ok |-> TRUE, added |-> IsSourcedIn(profiles[p])]>>]
    /\ UNCHANGED <<files, installed, writeVars, detectVars, secretVars, shellVars, race>>

NextProfile ==
    \/ \E p \in ProfilePaths : AddSourceLineCall(p)
    \/ \E p \in ProfilePaths : IsSourcedInCall(p)

SpecProfile == InitProfile /\ [][NextProfile]_vars

\* one text begins with the other
StartsWith(text, prefix) ==
    Len(prefix) <= Len(text) /\ SubSeq(text, 1, Len(prefix)) = prefix

\* C25: on every platform, after a call of addSourceLine that returns the profile
\* holds the hook block exactly once, the call returns true only if the profile
\* held no hook block before it, and the content the profile had before the call
\* is a prefix of its content after.
C25_HookAddedOnce ==
    [][(last'.op = "addSourceLine" /\ last'.results[1].ok)
       => LET p == last'.results[1].path IN
          /\ HookCount(profiles'[p].data, platform) = 1
          /\ last'.results[1].added => HookCount(profiles[p].data, platform) = 0
          /\ StartsWith(profiles'[p].data, profiles[p].data)
          /\ \A q \in ProfilePaths \ {p} : profiles'[q] = profiles[q]]_vars

-----------------------------------------------------------------------------
(* Malformed config files, status, and enable followed by disable *)

\* the config file of the agent exists and its text does not parse (or, for
\* JSON, is not an object)
Malformed(a, fs) ==
    LET c == fs[ConfigPath(a)] IN
    IF a = "codex" THEN c.kind = "garbage"
    ELSE c.kind = "garbage" \/ (c.kind = "json" /\ c.doc.t # "obj")

\* the result is a failure whose message names the config path of the agent
FailsNamingPath(r, a) ==
    ~r.success /\ \E i \in 1..Len(r.error) : r.error[i] = ConfigPath(a)

\* C26 as stated: enableYolo and disableYolo on an agent whose config file is
\* malformed return success=false with a message that names the path, and leave
\* the files as they were.
C26_MalformedAlwaysFails ==
    [][\A a \in Agents :
          ((Called("enable", a)' \/ Called("disable", a)') /\ Malformed(a, files))
          => (FailsNamingPath(last'.results[1], a) /\ files' = files)]_vars

\* C26 as amended: the files are left as they were in every case; the call returns
\* success=false with a message that names the path when it reads the file, that
\* is enableYolo for claude-code, codex and copilot with the binary detected and
\* disableYolo for claude-code and codex; enableYolo with the binary not detected
\* fails with the "Not installed" message, and disableYolo for copilot, which does
\* not read the file, succeeds.
C26_MalformedNeverOverwritten ==
    [][\A a \in Agents :
          ((Called("enable", a)' \/ Called("disable", a)') /\ Malformed(a, files))
          => LET r == last'.results[1]
                 detected == DetectBinary(Binaries(a), installed).found
             IN  /\ files' = files
                 /\ (Called("enable", a)' /\ detected) => FailsNamingPath(r, a)
                 /\ (Called("enable", a)' /\ ~detected)
                    => (~r.success /\ r.error[1] = "Not installed. Install with: ")
                 /\ (Called("disable", a)' /\ a \in {"claude-code", "codex"})
                    => FailsNamingPath(r, a)
                 /\ (Called("disable", a)' /\ a = "copilot") => r.success]_vars

\* an enable of codex has failed on a config.toml that does not parse
C26_Witness ==
    /\ Called("enable", "codex")
    /\ files[ConfigPath("codex")] = Garbage
    /\ FailsNamingPath(last.results[1], "codex")

\* the persisted config of the agent holds its sentinel values
HoldsSentinel(a, fs) ==
    LET c == fs[ConfigPath(a)]
        top(key) == IF HasKey(c.doc.o, key) THEN Get(c.doc.o, key) ELSE Undefined
    IN  IF a = "claude-code"
        THEN /\ c.kind = "json" /\ c.doc.t = "obj"
             /\ top("permissions").t = "obj"
             /\ HasKey(top("permissions").o, "defaultMode")
             /\ Get(top("permissions").o, "defaultMode") = Str("bypassPermissions")
        ELSE /\ c.kind = "toml"
             /\ top("approval_policy") = Str("never")
             /\ top("sandbox_mode") = Str("danger-full-access")

\* what the status entry of the agent says of enabled
ReportedEnabled(results, a) ==
    \E i \in 1..Len(results) : results[i].type = a /\ results[i].config[1].enabled

\* C27: for claude-code and codex, checkYoloStatus reports enabled=true exactly
\* when the binary is detected and the persisted config holds the sentinel values,
\* and changes no file; with the binary detected a status call right after an
\* enable that succeeded would report enabled=true, and right after a disable that
\* succeeded enabled=false.
C27_StatusReadsPersisted ==
    [][\A a \in {"claude-code", "codex"} :
          LET detected == DetectBinary(Binaries(a), installed').found
              next == CheckYoloStatusOutcome(files', installed')
          IN  /\ last'.op = "status"
                 => /\ files' = files
                    /\ ReportedEnabled(last'.results, a)
                       <=> (DetectBinary(Binaries(a), installed).found /\ HoldsSentinel(a, files))
              /\ (Called("enable", a)' /\ last'.results[1].success /\ detected)
                 => ReportedEnabled(next, a)
              /\ (Called("disable", a)' /\ last'.results[1].success)
                 => ~ReportedEnabled(next, a)]_vars

\* status has reported enabled=false for codex, whose binary is not detected
\* while its config holds both sentinel values
C27_Witness ==
    /\ last.op = "status"
    /\ ~DetectBinary(Binaries("codex"), installed).found
    /\ HoldsSentinel("codex", files)
    /\ ~ReportedEnabled(last.results, "codex")

-----------------------------------------------------------------------------
(* An enableYolo and a disableYolo on the config file of one agent, step by  *)
(* step.  Each call reads the file, and if it has something to write writes  *)
(* its temporary file and renames it over the config file; the steps of the  *)
(* two calls interleave in any order.                                        *)

\* the two calls
Callers == {"enable", "disable"}

\* the file system a call has seen: the config file as it read it
Seen(a, seen) == [p \in Paths |-> IF p = ConfigPath(a) THEN seen ELSE Missing]

\* what the call does on the file it read
CallOutcome(c, a, seen, inst, io) ==
    IF c = "enable" THEN EnableYoloOutcome(a, Seen(a, seen), inst, io)
    ELSE DisableYoloOutcome(a, Seen(a, seen), inst, io)

\* the call reaches writeFileAtomic: it returns success on a disk that works
\* and a failure on one that does not
CallWrites(c, a, seen, inst) ==
    /\ CallOutcome(c, a, seen, inst, "ok").result.success
    /\ ~CallOutcome(c, a, seen, inst, "writeFail").result.success

\* the content it passes to writeFileAtomic
CallContent(c, a, seen, inst) == CallOutcome(c, a, seen, inst, "ok").fs[ConfigPath(a)]

\* faulty variant of TmpName: one fixed name beside the target
TmpNameFixed(c) == "enable"

\* tmpFile of writeFileAtomic: the random part makes the names of two calls differ
TmpName(c) == c

\* a call before its first step
NotStarted == [pc |-> "read", seen |-> Missing, wrote |-> FALSE, content |-> Missing]

InitRace ==
    /\ \E a \in {"claude-code", "codex"} : \E c \in Contents(a) :
          /\ files = [p \in Paths |-> IF p = ConfigPath(a) THEN c ELSE Missing]
          /\ race = [active |-> TRUE, agent |-> a, orig |-> c,
                     calls |-> [k \in Callers |-> NotStarted],
                     tmps |-> [k \in Callers |-> Missing]]
    /\ installed = AllBinaries
    /\ last = NoCall
    /\ tmpFiles = [p \in Paths |-> Missing]
    /\ writer = Idle
    /\ platform = "linux"
    /\ nvmDir = NoNvm
    /\ probe = NoProbe
    /\ env = [v \in EnvNames |-> ""]
    /\ dotfiles = [p \in SearchPathSet |-> NoFile]
    /\ secretsData = NoData
    /\ modes = NoPerms
    /\ profiles = [p \in ProfilePaths |-> NoData]
    /\ held = <<>>

\* readJsonConfig / readTomlConfig of the call; a call with nothing to write, or
\* whose read throws, returns
RaceRead(c) ==
    LET a == race.agent
        seen == files[ConfigPath(a)]
        writes == CallWrites(c, a, seen, installed)
    IN  /\ race.active /\ race.calls[c].pc = "read"
        /\ race' = [race EXCEPT !.calls[c] =
                       [pc |-> IF writes THEN "open" ELSE "done", seen |-> seen, wrote |-> FALSE,
                        content |-> IF writes THEN CallContent(c, a, seen, installed) ELSE Missing]]
        /\ last' = IF writes THEN last
                   ELSE [op |-> c, results |-> <<CallOutcome(c, a, seen, installed, "ok").result>>]
        /\ UNCHANGED <<files, installed, writeVars, detectVars, secretVars, shellVars>>

\* fs.writeFile(tmpFile, content) has created the file and written part of it
RaceOpen(c) ==
    /\ race.active /\ race.calls[c].pc = "open"
    /\ race' = [race EXCEPT !.calls[c].pc = "write", !.tmps[TmpName(c)] = Partial]
    /\ UNCHANGED <<files, installed, last, writeVars, detectVars, secretVars, shellVars>>

\* fs.writeFile(tmpFile, content) has written all of it
RaceWrite(c) ==
    /\ race.active /\ race.calls[c].pc = "write"
    /\ race' = [race EXCEPT !.calls[c].pc = "rename", !.tmps[TmpName(c)] = race.calls[c].content]
    /\ UNCHANGED <<files, installed, last, writeVars, detectVars, secretVars, shellVars>>

\* fs.rename(tmpFile, filePath), and the call returns
RaceRename(c) ==
    LET a == race.agent IN
    /\ race.active /\ race.calls[c].pc = "rename"
    /\ files' = [files EXCEPT ![ConfigPath(a)] = race.tmps[TmpName(c)]]
    /\ race' = [race EXCEPT !.calls[c].pc = "done", !.calls[c].wrote = TRUE,
                            !.tmps[TmpName(c)] = Missing]
    /\ last' = [op |-> c,
                results |-> <<CallOutcome(c, a, race.calls[c].seen, installed, "ok").result>>]
    /\ UNCHANGED <<installed, writeVars, detectVars, secretVars, shellVars>>

NextRace ==
    \/ \E c \in Callers : RaceRead(c)
    \/ \E c \in Callers : RaceOpen(c)
    \/ \E c \in Callers : RaceWrite(c)
    \/ \E c \in Callers : RaceRename(c)

SpecRace == InitRace /\ [][NextRace]_vars

RECURSIVE DeepEqual(_, _)
\* deep equality of two values: objects are equal when they have the same keys
\* with deep-equal values, in whatever order
DeepEqual(v, w) ==
    /\ v.t = w.t
    /\ v.s = w.s
    /\ IF v.t = "obj"
       THEN /\ Keys(v.o) = Keys(w.o)
            /\ \A key \in Keys(v.o) : DeepEqual(Get(v.o, key), Get(w.o, key))
       ELSE /\ Len(v.o) = Len(w.o)
            /\ \A i \in 1..Len(v.o) : DeepEqual(v.o[i].v, w.o[i].v)

\* the config parses and holds none of the keys enabling sets
NotYetSet(a, c) ==
    IF a = "claude-code"
    THEN /\ c.kind = "json" /\ c.doc.t = "obj"
         /\ ~(/\ HasKey(c.doc.o, "permissions")
              /\ Get(c.doc.o, "permissions").t = "obj"
              /\ HasKey(Get(c.doc.o, "permissions").o, "defaultMode"))
    ELSE /\ c.kind = "toml"
         /\ ~HasKey(c.doc.o, "approval_policy") /\ ~HasKey(c.doc.o, "sandbox_mode")

\* the enable has returned after writing, and the disable has read what it wrote
\* and has returned
EnabledThenDisabled ==
    /\ race.active
    /\ race.calls["enable"].pc = "done" /\ race.calls["enable"].wrote
    /\ race.calls["disable"].pc = "done"
    /\ race.calls["disable"].seen = race.calls["enable"].content

\* C28 as stated: an enable that succeeds followed by a disable, on a config in
\* which the keys enabling sets are absent, leaves a config deep-equal to the
\* one before the enable.
C28_EnableDisableRoundTrip ==
    (EnabledThenDisabled /\ NotYetSet(race.agent, race.orig))
    => DeepEqual(files[ConfigPath(race.agent)].doc, race.orig.doc)

\* the Claude Code config holds permissions as an object with a key besides
\* defaultMode, or holds no permissions at all
PermissionsKept(c) ==
    \/ ~HasKey(c.doc.o, "permissions")
    \/ /\ Get(c.doc.o, "permissions").t = "obj"
       /\ Keys(Get(c.doc.o, "permissions").o) \ {"defaultMode"} # {}

\* C28 as amended: the round trip holds for a Codex config without the two
\* keys, and for a Claude Code config without permissions.defaultMode whose
\* permissions is absent or is an object with another key; when permissions
\* is an empty object or is not an object, the config after the disable is the one
\* before the enable without its permissions key.
C28_RoundTripUnlessPruned ==
    (EnabledThenDisabled /\ NotYetSet(race.agent, race.orig))
    => LET a == race.agent
           after == files[ConfigPath(a)].doc
       IN  IF a = "codex" \/ PermissionsKept(race.orig)
           THEN DeepEqual(after, race.orig.doc)
           ELSE DeepEqual(after, Obj(Del(race.orig.doc.o, "permissions")))

\* enable then disable on a Claude Code config with a permissions.allow list
C28_Witness ==
    /\ EnabledThenDisabled
    /\ race.agent = "claude-code"
    /\ NotYetSet("claude-code", race.orig)
    /\ HasKey(race.orig.doc.o, "permissions")
    /\ PermissionsKept(race.orig)
    /\ files[ConfigPath("claude-code")] # race.calls["enable"].content

\* every call has returned
AllDone == race.active /\ \A c \in Callers : race.calls[c].pc = "done"

\* C30: in every interleaving the config file holds the original content or the
\* complete content one of the calls passed to writeFileAtomic; once both calls
\* have returned it holds what one of them wrote, or the original when neither
\* wrote, and no temporary file is left.
C30_InterleavingsSafe ==
    race.active
    => LET f == files[ConfigPath(race.agent)]
           written == {race.calls[c].content : c \in {k \in Callers : race.calls[k].wrote}}
       IN  /\ f # Partial
           /\ f \in {race.orig} \cup written
           /\ AllDone => /\ f \in (IF written = {} THEN {race.orig} ELSE written)
                         /\ \A c \in Callers : race.tmps[c] = Missing

\* both calls have written: the disable read the file after the enable renamed,
\* and the enable renamed last
C30_Witness ==
    /\ AllDone
    /\ \A c \in Callers : race.calls[c].wrote
    /\ files[ConfigPath(race.agent)] = race.calls["enable"].content
    /\ race.calls["disable"].content # race.calls["enable"].content

====
